---- MODULE Spec2Model ----
(***************************************************************************)
(* Model of aroadtools.roadlib: the Authentication context (auth.py) and   *)
(* the DeviceAuthentication object (deviceauth.py).                        *)
(*                                                                         *)
(* Conventions of the model                                                *)
(*  - A Python dict is a function from key strings to values; a missing    *)
(*    key is a key outside DOMAIN.  Python None is the value None.         *)
(*  - A str/bytes value that the code searches, slices or parses (a        *)
(*    Location header, a page body) is a sequence of tokens.               *)
(*  - The HTTP wrappers requests_get / requests_post are modelled by their *)
(*    contract: one request handed to the transport, one (response, data)  *)
(*    pair handed back.  How keywords are forwarded to the wrapper (for    *)
(*    instance the keyword cookies= at auth.py:856, which requests_get at  *)
(*    auth.py:1147 does not declare) and the attribute names of the        *)
(*    response object (status / status_code) are not modelled; what the    *)
(*    callers do with the returned pair is.                                *)
(*  - An operation that awaits one request is one action, its response an  *)
(*    input; an operation that awaits several requests is one action per   *)
(*    await, with pc naming the await it is suspended at.                  *)
(*  - base64url text is decoded exactly by B64Decode; the code's           *)
(*    base64.b64decode of a JWT segment is b64decode_padded, which differs *)
(*    from it on segments that hold '-' or '_'.                            *)
(*  - Spec is the operations of both objects; CancelSpec adds the caller   *)
(*    cancelling a running bulk enrollment; DeviceSpec is the device       *)
(*    object alone, with loadkey.                                          *)
(***************************************************************************)
EXTENDS Integers, Sequences, FiniteSets, TLC

VARIABLES
    tenant,     \* Authentication.tenant
    scope,      \* Authentication.scope
    tokendata,  \* Authentication.tokendata
    dev,        \* the DeviceAuthentication object's fields
    pc,         \* "idle", "done" (an operation completed and its outcome is in
                \* result), or the await the running operation is suspended at
    call,       \* the running (or last completed) operation and its arguments
    frame,      \* local variables of the running operation
    pre,        \* tokendata when the operation named by call started
    log,        \* requests sent by the operation named by call, in order
    resps,      \* the responses to them, in order
    printed,    \* messages that operation handed to the print sink, in order
    result,     \* outcome of the operation named by call, NoResult while it runs
    httptransport,  \* the httptransport both objects were constructed with
    cancel,     \* the cancellation the caller requested of the running operation
    disk        \* the files of the working directory: name -> content

vars == <<tenant, scope, tokendata, dev, pc, call, frame, pre, log, resps, printed,
          result, httptransport, cancel, disk>>

-----------------------------------------------------------------------------
(* Bounds of the model *)

\* most "still pending" answers the bulk-enrollment server gives before a final one
MaxPending == 2

\* the clock readings (seconds) an expires_in is added to
MaxClock == 2

-----------------------------------------------------------------------------
(* Python values *)

None == "<None>"

\* truth value of `if v:` for None and str
Truthy(v) == v # None /\ v # ""

EmptyDict == <<>>

HasKey(d, k) == k \in DOMAIN d

\* {**a, **b}
Merge(a, b) == [k \in DOMAIN a \cup DOMAIN b |-> IF k \in DOMAIN b THEN b[k] ELSE a[k]]

\* d with d[k] = v
DictSet(d, k, v) == [x \in DOMAIN d \cup {k} |-> IF x = k THEN v ELSE d[x]]

Return(v) == [kind |-> "return", val |-> v]

ReturnFalse == [kind |-> "false"]

ReturnNone == [kind |-> "none"]

Raise(e, v) == [kind |-> "raise", exc |-> e, val |-> v]

NoResult == [kind |-> "running"]

\* `a in b` for two strings given as token sequences
Contains(b, a) ==
    \E i \in 0..(Len(b) - Len(a)) : SubSeq(b, i + 1, i + Len(a)) = a

\* b.startswith(a)
StartsWith(b, a) == Len(a) <= Len(b) /\ SubSeq(b, 1, Len(a)) = a

\* str.lower() on the tokens that have upper-case letters
LowerTok(t) ==
    CASE t = "HTTPS://LOGIN.MICROSOFTONLINE.COM/COMMON/OAUTH2/NATIVECLIENT"
            -> "https://login.microsoftonline.com/common/oauth2/nativeclient"
      [] OTHER -> t

Lower(s) == [i \in DOMAIN s |-> LowerTok(s[i])]

\* json.loads of a text: a text is [json |-> value] when it is JSON, and
\* [text |-> ...] when it is not
IsJson(t) == DOMAIN t = {"json"}

JsonText(v) == [json |-> v]

PlainText(s) == [text |-> s]

JsonLoads(t) == IF IsJson(t) THEN Return(t.json) ELSE Raise("JSONDecodeError", t)

-----------------------------------------------------------------------------
(* Requests and responses *)

\* an httpx transport handed to the constructor; None makes httpx use its own
InjectedTransport == "injected-transport"

Transports == {None, InjectedTransport}

\* a request sent by requests_get / requests_post or by the device object's
\* session, each of which makes its client from self.httptransport
Req(method, base, path, data) ==
    [method |-> method, base |-> base, path |-> path, data |-> data,
     transport |-> httptransport]

\* the request r sent by an Authentication() constructed without arguments
FreshAuthReq(r) == [r EXCEPT !.transport = None]

LoginHost == "https://login.microsoftonline.com/"

PathTokenV1 == "/oauth2/token"

PathTokenV2 == "/oauth2/v2.0/token"

PathAuthorizeV1 == "/oauth2/authorize"

PathAuthorizeV2 == "/oauth2/v2.0/authorize"

\* Access tokens are JWTs: three segments, the middle one the base64 of the
\* JSON text of the claims
B64(x) == [b64 |-> x]

B64Decode(s) == s.b64

\* a PRT whose cookie payload base64url-encodes to a segment that holds '_':
\* its '?' is the last byte of a group of three
PrtUrlChar == "0.AAAA.p?"

\* the base64url segment seg holds '-' or '_'
HasUrlChars(seg) ==
    /\ IsJson(B64Decode(seg))
    /\ HasKey(B64Decode(seg).json, "refresh_token")
    /\ B64Decode(seg).json["refresh_token"] = PrtUrlChar

\* base64.b64decode(seg + '=' * (len(seg) % 4)) of a base64url segment: the
\* standard alphabet is used and '-' and '_' are discarded before decoding, which
\* leaves other bytes or, when the padding no longer fits, raises binascii.Error
\* (for PrtUrlChar: a payload with request_nonce raises, one with iat decodes)
b64decode_padded(seg) ==
    IF ~HasUrlChars(seg) THEN Return(B64Decode(seg))
    ELSE IF HasKey(B64Decode(seg).json, "request_nonce")
    THEN Raise("binascii.Error", "Incorrect padding")
    ELSE Return([garbled |-> B64Decode(seg)])

Jwt(claims) == <<"hdr", B64(JsonText(claims)), "sig">>

AT1 == Jwt([tid |-> "tenant-1", appid |-> "app-1"])

AT2 == Jwt([aud |-> "api"])

ID1 == Jwt([tid |-> "tenant-1", aud |-> "enroll"])

\* 200 replies of a /token endpoint
TokenReplies ==
    { [token_type |-> "Bearer", expires_in |-> 1, access_token |-> AT1,
       refresh_token |-> "R1", id_token |-> ID1],
      [token_type |-> "Bearer", expires_on |-> 5, access_token |-> AT2] }

ErrorReply == [error |-> "invalid_grant", error_description |-> "AADSTS: denied"]

\* a response of a /token endpoint: status, res.json() and res.text
TokenResponses ==
    { [status |-> 200, json |-> r, text |-> JsonText(r)] : r \in TokenReplies }
    \cup { [status |-> 400, json |-> ErrorReply, text |-> JsonText(ErrorReply)] }

Clock == 1..MaxClock

-----------------------------------------------------------------------------
(* Context configuration *)

ClientId == "1b730954-1685-4b74-9bfd-dac224a7b894"

ResourceUri == "https://graph.windows.net/"

Username == "u@t.onmicrosoft.com"

Password == "P"

Tenants == {None, "T"}

Scopes == {None, "openid profile"}

\* get_authority_url with the default_tenant of its caller ignored
get_authority_url_AlwaysCommon(default_tenant) ==
    IF tenant # None THEN LoginHost \o tenant ELSE LoginHost \o "common"

\* Authentication.get_authority_url
get_authority_url(default_tenant) ==
    IF tenant # None THEN LoginHost \o tenant ELSE LoginHost \o default_tenant

-----------------------------------------------------------------------------
(* Token codec *)

Strftime(t) == <<"Y-m-d H:M:S", t>>

\* Authentication.tokenreply_to_tokendata; now is datetime.now()
tokenreply_to_tokendata(tokenreply, client_id, now) ==
    IF ~HasKey(tokenreply, "token_type") THEN Raise("KeyError", "token_type")
    ELSE IF ~HasKey(tokenreply, "expires_on") /\ ~HasKey(tokenreply, "expires_in")
    THEN Raise("KeyError", "expires_in")
    ELSE IF ~HasKey(tokenreply, "access_token") THEN Raise("KeyError", "access_token")
    ELSE
      LET expiresOn == IF HasKey(tokenreply, "expires_on")
                       THEN Strftime(tokenreply["expires_on"])
                       ELSE Strftime(now + tokenreply["expires_in"])
          tokenparts == tokenreply["access_token"]
          parsed == JsonLoads(b64decode_padded(tokenparts[2]).val)
      IN IF parsed.kind = "raise" THEN parsed
         ELSE
           LET inputdata == parsed.val
               o1 == [tokenType |-> tokenreply["token_type"], expiresOn |-> expiresOn]
               o2 == IF HasKey(inputdata, "tid")
                     THEN DictSet(o1, "tenantId", inputdata["tid"]) ELSE o1
               o3 == IF Truthy(client_id) THEN DictSet(o2, "_clientId", client_id)
                     ELSE IF HasKey(inputdata, "appid")
                     THEN DictSet(o2, "_clientId", inputdata["appid"]) ELSE o2
               o4 == IF HasKey(tokenreply, "access_token")
                     THEN DictSet(o3, "accessToken", tokenreply["access_token"]) ELSE o3
               o5 == IF HasKey(tokenreply, "refresh_token")
                     THEN DictSet(o4, "refreshToken", tokenreply["refresh_token"]) ELSE o4
               o6 == IF HasKey(tokenreply, "id_token")
                     THEN DictSet(o5, "idToken", tokenreply["id_token"]) ELSE o5
           IN Return(DictSet(o6, "tokenType", tokenreply["token_type"]))

-----------------------------------------------------------------------------
(* Crypto primitives, symbolically *)

\* KBKDFHMAC(SHA256, CounterMode, length=32, label, context).derive(sessionkey)
KBKDF(sessionkey, context) ==
    [kdf |-> "KBKDF-HMAC-SHA256", label |-> "AzureAD-SecureConversation",
     key |-> sessionkey, context |-> context]

\* a context is bytes; a caller that passes none passes NoContext
Bytes(x) == [bytes |-> x]

NoContext == EmptyDict

\* os.urandom(24)
RandomContext == Bytes("os.urandom(24)")

\* contexts a caller or the server may use
CtxC == Bytes("ctx-c")

CtxS == Bytes("ctx-s")

\* Authentication.calculate_derived_key: (context, derived_key)
calculate_derived_key(sessionkey, context) ==
    LET ctx == IF context # NoContext THEN context ELSE RandomContext
    IN <<ctx, KBKDF(sessionkey, ctx)>>

\* hashes.Hash(SHA256) over the concatenation of parts
Sha256(parts) == [sha256 |-> parts]

\* Authentication.calculate_derived_key_v2
calculate_derived_key_v2(sessionkey, context, jwtbody) ==
    calculate_derived_key(sessionkey, Sha256(<<context, jwtbody>>))

\* jwt.encode(payload, key, algorithm='HS256', headers=headers): the three
\* segments of the token, the signature standing for the key that made it
jwt_encode(payload, key, headers) ==
    [headers |-> headers, body |-> B64(JsonText(payload)), sigkey |-> key]

\* jwt.decode(token, options={"verify_signature": False})
jwt_decode_unverified(token) == B64Decode(token.body).json

\* jwt.decode(token, key, algorithms=['HS256'])
jwt_decode(token, key) ==
    IF token.sigkey = key THEN Return(B64Decode(token.body).json)
    ELSE Raise("InvalidSignatureError", None)

\* initialisation vectors: the bytes and how many they are
IvGcm == [len |-> 12, iv |-> "iv-gcm"]

IvCbc == [len |-> 16, iv |-> "iv-cbc"]

\* AESGCM(key).encrypt(iv, pt, aad): the ciphertext and the tag that follows it
GcmCipher(key, iv, pt) == [gcm_key |-> key, iv |-> iv, pt |-> pt]

GcmTag(key, iv, pt, aad) == [tag_key |-> key, iv |-> iv, pt |-> pt, aad |-> aad]

\* AESGCM(key).decrypt(iv, data + tag, aad)
AesGcmDecrypt(key, iv, data, tag, aad) ==
    IF HasKey(data, "gcm_key") /\ data.gcm_key = key /\ data.iv = iv
       /\ tag = GcmTag(key, iv, data.pt, aad)
    THEN Return(data.pt)
    ELSE Raise("InvalidTag", None)

\* AES-CBC encryption of the PKCS#7-padded pt
CbcCipher(key, iv, pt) == [cbc_key |-> key, iv |-> iv, padded |-> pt]

\* Cipher(AES(key), CBC(iv)).decryptor() and PKCS7(128).unpadder(): another key
\* leaves bytes that do not end in a padding
AesCbcDecrypt(key, iv, data) ==
    IF HasKey(data, "cbc_key") /\ data.cbc_key = key /\ data.iv = iv
    THEN Return(data.padded)
    ELSE Raise("ValueError", "Invalid padding bytes.")

\* the JWE header segment for a context
JweHeader(ctx, enc) == B64(JsonText([ctx |-> B64(ctx), enc |-> enc]))

\* an encrypted response: a compact JWE (header, key, iv, data, authtag) whose
\* header carries ctx and whose content is text encrypted with AES-GCM under key
Jwe(ctx, key, text) ==
    [header |-> JweHeader(ctx, "A256GCM"), key |-> "", iv |-> B64(IvGcm),
     data |-> B64(GcmCipher(key, IvGcm, text)),
     authtag |-> B64(GcmTag(key, IvGcm, text, JweHeader(ctx, "A256GCM")))]

\* the same in the legacy format: AES-CBC, and an HMAC tag nobody checks
JweCbc(ctx, key, text, hmac) ==
    [header |-> JweHeader(ctx, "A256CBC"), key |-> "", iv |-> B64(IvCbc),
     data |-> B64(CbcCipher(key, IvCbc, text)), authtag |-> B64([hmac |-> hmac])]

\* every token is taken for AES-GCM
AesMode_AlwaysGcm(iv) == "GCM"

\* auth.py 661: len(get_data(iv)) == 12
AesMode(iv) == IF iv.len = 12 THEN "GCM" ELSE "CBC"

\* Authentication.decrypt_auth_response
decrypt_auth_response(responsedata, sessionkey, asjson) ==
    IF IsJson(responsedata) /\ DOMAIN responsedata.json # {}
    THEN \* responsedata[:2] == '{"'
         IF asjson THEN JsonLoads(responsedata) ELSE Return(responsedata)
    ELSE IF ~HasKey(responsedata, "header")
    THEN Raise("IndexError", responsedata)
    ELSE LET headers == JsonLoads(B64Decode(responsedata.header)).val
             derived_key == calculate_derived_key(sessionkey, B64Decode(headers["ctx"]))[2]
             iv == B64Decode(responsedata.iv)
             data == B64Decode(responsedata.data)
             authtag == B64Decode(responsedata.authtag)
             depadded_data ==
                 IF AesMode(iv) = "GCM"
                 THEN AesGcmDecrypt(derived_key, iv, data, authtag, responsedata.header)
                 ELSE AesCbcDecrypt(derived_key, iv, data)
         IN IF depadded_data.kind = "raise"
            THEN Raise(depadded_data.exc, responsedata)
            ELSE IF asjson THEN JsonLoads(depadded_data.val)
                 ELSE depadded_data

-----------------------------------------------------------------------------
(* Completion of an operation *)

\* no cancellation of the running task was requested
NoCancel == [requested |-> FALSE]

\* task.cancel() was called while the operation was at pc `at` and had sent
\* `sent` requests
CancelRequested(at, sent) == [requested |-> TRUE, at |-> at, sent |-> sent]

\* the operation named by c ends with outcome r and leaves tokendata = td;
\* p0 is tokendata as it was when the operation started
End(c, l, rs, p, r, td, p0) ==
    /\ call' = c
    /\ log' = l
    /\ resps' = rs
    /\ printed' = p
    /\ result' = r
    /\ pre' = p0
    /\ tokendata' = td
    /\ pc' = "done"
    /\ frame' = EmptyDict
    /\ UNCHANGED <<tenant, scope, dev, httptransport, cancel, disk>>

\* the caller has taken the outcome of the completed operation; the context is
\* ready for the next call
Returned ==
    /\ pc = "done"
    /\ pc' = "idle"
    /\ call' = [op |-> "-"]
    /\ frame' = EmptyDict
    /\ pre' = EmptyDict
    /\ log' = <<>>
    /\ resps' = <<>>
    /\ printed' = <<>>
    /\ result' = ReturnNone
    /\ cancel' = NoCancel
    /\ UNCHANGED <<tenant, scope, tokendata, dev, httptransport, disk>>

\* what a call of a one-request operation does: the requests it sends, the
\* responses it gets, what it prints, its outcome, and tokendata afterwards
Out(l, rs, p, r, td) == [log |-> l, resps |-> rs, printed |-> p, result |-> r, td |-> td]

\* an operation that starts and ends in one step
Finish(c, o) == End(c, o.log, o.resps, o.printed, o.result, o.td, tokendata)

\* the operation named by c is suspended at the await newpc with locals f
Suspend(c, f, l, rs, p, newpc, p0) ==
    /\ call' = c
    /\ frame' = f
    /\ log' = l
    /\ resps' = rs
    /\ printed' = p
    /\ pc' = newpc
    /\ result' = NoResult
    /\ pre' = p0
    /\ UNCHANGED <<tenant, scope, tokendata, dev, httptransport, cancel, disk>>

\* the tail shared by the grant flows: status check, returnreply, conversion
\*     if res.status_code != 200: raise AuthenticationException(errval)
\*     if returnreply: return tokenreply
\*     self.tokendata = self.tokenreply_to_tokendata(tokenreply)
\*     return self.tokendata
TokenFlowResult(resp, errval, returnreply, now) ==
    IF resp.status # 200 THEN Raise("AuthenticationException", errval)
    ELSE IF returnreply THEN Return(resp.json)
    ELSE tokenreply_to_tokendata(resp.json, None, now)

\* the reply is stored whether or not it is handed back raw
TokenFlowStore_Always(res, returnreply) ==
    IF res.kind = "return" THEN res.val ELSE tokendata

\* tokendata after that tail
TokenFlowStore(res, returnreply) ==
    IF res.kind = "return" /\ ~returnreply THEN res.val ELSE tokendata

-----------------------------------------------------------------------------
(* Arguments of the grant flows *)

Secrets == {None, "app-secret"}

\* additionaldata: no override (None and {} are alike to `if additionaldata:`),
\* an extra field, an override of scope
AdditionalDatas == {EmptyDict, [claims |-> "c"], [scope |-> "custom"]}

PkceSecrets == {None, "verifier"}

RefreshToken == "R0"

SamlToken == "<saml/>"

Code == "ABC"

WithSecret(data, client_secret) ==
    IF Truthy(client_secret) THEN DictSet(data, "client_secret", client_secret) ELSE data

WithAdditional(data, additionaldata) ==
    IF DOMAIN additionaldata # {} THEN Merge(data, additionaldata) ELSE data

-----------------------------------------------------------------------------
(* Grant flows, one request each *)

RedirectUriDefault == "https://login.microsoftonline.com/common/oauth2/nativeclient"

SessionKey == "session-key-1"

OtherSessionKey == "session-key-2"

DssoToken == "dsso-token"

PasswordDataV1(client_secret, additionaldata) ==
    LET d0 == [client_id |-> ClientId, grant_type |-> "password",
               resource |-> ResourceUri, username |-> Username, password |-> Password]
        d1 == IF Truthy(scope) THEN DictSet(d0, "scope", scope) ELSE d0
    IN WithAdditional(WithSecret(d1, client_secret), additionaldata)

\* Authentication.authenticate_username_password_native
authenticate_username_password_native_run(client_secret, additionaldata, returnreply, resp, now) ==
    LET data == PasswordDataV1(client_secret, additionaldata)
        req == Req("POST", get_authority_url("common"), PathTokenV1, data)
        res == TokenFlowResult(resp, resp.json, returnreply, now)
    IN Out(<<req>>, <<resp>>, <<data>>, res, TokenFlowStore(res, returnreply))

authenticate_username_password_native ==
    /\ pc = "idle"
    /\ \E client_secret \in Secrets, additionaldata \in AdditionalDatas,
          returnreply \in BOOLEAN, resp \in TokenResponses, now \in Clock :
          Finish([op |-> "authenticate_username_password_native",
                  additionaldata |-> additionaldata, returnreply |-> returnreply],
                 authenticate_username_password_native_run(
                     client_secret, additionaldata, returnreply, resp, now))

PasswordDataV2(client_secret, additionaldata) ==
    LET d0 == [client_id |-> ClientId, grant_type |-> "password",
               scope |-> scope, username |-> Username, password |-> Password]
    IN WithAdditional(WithSecret(d0, client_secret), additionaldata)

\* Authentication.authenticate_username_password_native_v2
authenticate_username_password_native_v2_run(client_secret, additionaldata, returnreply, resp, now) ==
    LET data == PasswordDataV2(client_secret, additionaldata)
        req == Req("POST", get_authority_url("organizations"), PathTokenV2, data)
        res == TokenFlowResult(resp, resp.json, returnreply, now)
    IN Out(<<req>>, <<resp>>, <<data>>, res, TokenFlowStore(res, returnreply))

authenticate_username_password_native_v2 ==
    /\ pc = "idle"
    /\ \E client_secret \in Secrets, additionaldata \in AdditionalDatas,
          returnreply \in BOOLEAN, resp \in TokenResponses, now \in Clock :
          Finish([op |-> "authenticate_username_password_native_v2",
                  additionaldata |-> additionaldata, returnreply |-> returnreply],
                 authenticate_username_password_native_v2_run(
                     client_secret, additionaldata, returnreply, resp, now))

RefreshDataV1(refresh_token, client_secret, additionaldata) ==
    LET d0 == [client_id |-> ClientId, grant_type |-> "refresh_token",
               refresh_token |-> refresh_token, resource |-> ResourceUri]
    IN WithAdditional(WithSecret(d0, client_secret), additionaldata)

\* Authentication.authenticate_with_refresh_native
authenticate_with_refresh_native_run(refresh_token, client_secret, additionaldata, returnreply, resp, now) ==
    LET data == RefreshDataV1(refresh_token, client_secret, additionaldata)
        req == Req("POST", get_authority_url("common"), PathTokenV1, data)
        res == TokenFlowResult(resp, resp.text, returnreply, now)
    IN Out(<<req>>, <<resp>>, <<>>, res, TokenFlowStore(res, returnreply))

authenticate_with_refresh_native ==
    /\ pc = "idle"
    /\ \E client_secret \in Secrets, additionaldata \in AdditionalDatas,
          returnreply \in BOOLEAN, resp \in TokenResponses, now \in Clock :
          Finish([op |-> "authenticate_with_refresh_native",
                  additionaldata |-> additionaldata, returnreply |-> returnreply],
                 authenticate_with_refresh_native_run(
                     RefreshToken, client_secret, additionaldata, returnreply, resp, now))

\* the v2 refresh request with the resource of the v1 request left in
RefreshDataV2_WithResource(refresh_token, client_secret, additionaldata) ==
    LET d0 == [client_id |-> ClientId, grant_type |-> "refresh_token",
               refresh_token |-> refresh_token, scope |-> scope,
               resource |-> ResourceUri]
    IN WithAdditional(WithSecret(d0, client_secret), additionaldata)

\* auth.py 252-262: the data of the v2 refresh request
RefreshDataV2(refresh_token, client_secret, additionaldata) ==
    LET d0 == [client_id |-> ClientId, grant_type |-> "refresh_token",
               refresh_token |-> refresh_token, scope |-> scope]
    IN WithAdditional(WithSecret(d0, client_secret), additionaldata)

\* Authentication.authenticate_with_refresh_native_v2
authenticate_with_refresh_native_v2_run(refresh_token, client_secret, additionaldata, returnreply, resp, now) ==
    LET data == RefreshDataV2(refresh_token, client_secret, additionaldata)
        req == Req("POST", get_authority_url("common"), PathTokenV2, data)
        res == TokenFlowResult(resp, resp.text, returnreply, now)
    IN Out(<<req>>, <<resp>>, <<>>, res, TokenFlowStore(res, returnreply))

authenticate_with_refresh_native_v2 ==
    /\ pc = "idle"
    /\ \E client_secret \in Secrets, additionaldata \in AdditionalDatas,
          returnreply \in BOOLEAN, resp \in TokenResponses, now \in Clock :
          Finish([op |-> "authenticate_with_refresh_native_v2",
                  additionaldata |-> additionaldata, returnreply |-> returnreply],
                 authenticate_with_refresh_native_v2_run(
                     RefreshToken, client_secret, additionaldata, returnreply, resp, now))

CodeDataV1(code, redirurl, client_secret, additionaldata) ==
    LET d0 == [client_id |-> ClientId, grant_type |-> "authorization_code",
               code |-> code, redirect_uri |-> redirurl, resource |-> ResourceUri]
    IN WithAdditional(WithSecret(d0, client_secret), additionaldata)

\* authenticate_with_code_native without the pkce_secret test of auth.py 289
authenticate_with_code_native_run_PkceIgnored(code, redirurl, client_secret, pkce_secret, additionaldata, returnreply, resp, now) ==
    LET data == CodeDataV1(code, redirurl, client_secret, additionaldata)
        req == Req("POST", get_authority_url("common"), PathTokenV1, data)
        res == TokenFlowResult(resp, resp.text, returnreply, now)
    IN Out(<<req>>, <<resp>>, <<>>, res, TokenFlowStore(res, returnreply))

\* Authentication.authenticate_with_code_native
authenticate_with_code_native_run(code, redirurl, client_secret, pkce_secret, additionaldata, returnreply, resp, now) ==
    LET data == CodeDataV1(code, redirurl, client_secret, additionaldata)
        req == Req("POST", get_authority_url("common"), PathTokenV1, data)
        res == TokenFlowResult(resp, resp.text, returnreply, now)
    IN IF Truthy(pkce_secret)
       THEN Out(<<>>, <<>>, <<>>, Raise("NotImplementedError", None), tokendata)
       ELSE Out(<<req>>, <<resp>>, <<>>, res, TokenFlowStore(res, returnreply))

authenticate_with_code_native ==
    /\ pc = "idle"
    /\ \E client_secret \in Secrets, pkce_secret \in PkceSecrets,
          additionaldata \in AdditionalDatas, returnreply \in BOOLEAN,
          resp \in TokenResponses, now \in Clock :
          Finish([op |-> "authenticate_with_code_native",
                  pkce_secret |-> pkce_secret, additionaldata |-> additionaldata,
                  returnreply |-> returnreply],
                 authenticate_with_code_native_run(
                     Code, <<RedirectUriDefault>>, client_secret, pkce_secret,
                     additionaldata, returnreply, resp, now))

CodeDataV2(code, redirurl, client_secret, additionaldata) ==
    LET d0 == [client_id |-> ClientId, grant_type |-> "authorization_code",
               code |-> code, redirect_uri |-> redirurl, scope |-> scope]
    IN WithAdditional(WithSecret(d0, client_secret), additionaldata)

\* Authentication.authenticate_with_code_native_v2
authenticate_with_code_native_v2_run(code, redirurl, client_secret, pkce_secret, additionaldata, returnreply, resp, now) ==
    LET data == CodeDataV2(code, redirurl, client_secret, additionaldata)
        req == Req("POST", get_authority_url("common"), PathTokenV2, data)
        res == TokenFlowResult(resp, resp.text, returnreply, now)
    IN IF Truthy(pkce_secret)
       THEN Out(<<>>, <<>>, <<>>, Raise("NotImplementedError", None), tokendata)
       ELSE Out(<<req>>, <<resp>>, <<>>, res, TokenFlowStore(res, returnreply))

authenticate_with_code_native_v2 ==
    /\ pc = "idle"
    /\ \E client_secret \in Secrets, pkce_secret \in PkceSecrets,
          additionaldata \in AdditionalDatas, returnreply \in BOOLEAN,
          resp \in TokenResponses, now \in Clock :
          Finish([op |-> "authenticate_with_code_native_v2",
                  pkce_secret |-> pkce_secret, additionaldata |-> additionaldata,
                  returnreply |-> returnreply],
                 authenticate_with_code_native_v2_run(
                     Code, <<RedirectUriDefault>>, client_secret, pkce_secret,
                     additionaldata, returnreply, resp, now))

\* responses of the token endpoint to a request whose reply is encrypted
\* under a key derived from the session key
EncryptedResponses ==
    LET reply == CHOOSE r \in TokenReplies : HasKey(r, "refresh_token")
        jwe(k) == Jwe(CtxS, KBKDF(k, CtxS), JsonText(reply))
    IN { [status |-> 200, text |-> jwe(SessionKey)],
         [status |-> 200, text |-> jwe(OtherSessionKey)],
         [status |-> 200, text |-> JsonText(reply)],
         [status |-> 400, text |-> JsonText(ErrorReply)] }

CodeEncryptedData(code, redirurl) ==
    [grant_type |-> "authorization_code", code |-> code, redirect_uri |-> redirurl,
     client_id |-> ClientId, client_info |-> 1, windows_api_version |-> "2.0"]

\* Authentication.authenticate_with_code_encrypted
authenticate_with_code_encrypted_run(code, sessionkey, redirurl, resp) ==
    LET data == CodeEncryptedData(code, redirurl)
        req == Req("POST", get_authority_url("common"), PathTokenV1, data)
        res == IF resp.status # 200
               THEN Raise("AuthenticationException", resp.text)
               ELSE decrypt_auth_response(resp.text, sessionkey, TRUE)
    IN Out(<<req>>, <<resp>>, <<>>, res, tokendata)

authenticate_with_code_encrypted ==
    /\ pc = "idle"
    /\ \E resp \in EncryptedResponses :
          Finish([op |-> "authenticate_with_code_encrypted"],
                 authenticate_with_code_encrypted_run(
                     Code, SessionKey, <<RedirectUriDefault>>, resp))

SamlDataV1(saml_token, additionaldata) ==
    LET d0 == [client_id |-> ClientId,
               grant_type |-> "urn:ietf:params:oauth:grant-type:saml1_1-bearer",
               assertion |-> B64(saml_token), resource |-> ResourceUri]
    IN WithAdditional(d0, additionaldata)

\* Authentication.authenticate_with_saml_native
authenticate_with_saml_native_run(saml_token, additionaldata, returnreply, resp, now) ==
    LET data == SamlDataV1(saml_token, additionaldata)
        req == Req("POST", get_authority_url("common"), PathTokenV1, data)
        res == TokenFlowResult(resp, resp.text, returnreply, now)
    IN Out(<<req>>, <<resp>>, <<>>, res, TokenFlowStore(res, returnreply))

authenticate_with_saml_native ==
    /\ pc = "idle"
    /\ \E additionaldata \in AdditionalDatas, returnreply \in BOOLEAN,
          resp \in TokenResponses, now \in Clock :
          Finish([op |-> "authenticate_with_saml_native",
                  additionaldata |-> additionaldata, returnreply |-> returnreply],
                 authenticate_with_saml_native_run(
                     SamlToken, additionaldata, returnreply, resp, now))

SamlDataV2(saml_token, additionaldata) ==
    LET d0 == [client_id |-> ClientId,
               grant_type |-> "urn:ietf:params:oauth:grant-type:saml1_1-bearer",
               assertion |-> B64(saml_token), scope |-> scope]
    IN WithAdditional(d0, additionaldata)

\* Authentication.authenticate_with_saml_native_v2
authenticate_with_saml_native_v2_run(saml_token, additionaldata, returnreply, resp, now) ==
    LET data == SamlDataV2(saml_token, additionaldata)
        req == Req("POST", get_authority_url("common"), PathTokenV2, data)
        res == TokenFlowResult(resp, resp.text, returnreply, now)
    IN Out(<<req>>, <<resp>>, <<>>, res, TokenFlowStore(res, returnreply))

authenticate_with_saml_native_v2 ==
    /\ pc = "idle"
    /\ \E additionaldata \in AdditionalDatas, returnreply \in BOOLEAN,
          resp \in TokenResponses, now \in Clock :
          Finish([op |-> "authenticate_with_saml_native_v2",
                  additionaldata |-> additionaldata, returnreply |-> returnreply],
                 authenticate_with_saml_native_v2_run(
                     SamlToken, additionaldata, returnreply, resp, now))

DssoDataV1(dssotoken, additionaldata) ==
    LET claim == B64(<<"<saml:Assertion><DesktopSsoToken>", dssotoken,
                       "</DesktopSsoToken></saml:Assertion>">>)
        d0 == [resource |-> ResourceUri, client_id |-> ClientId,
               grant_type |-> "urn:ietf:params:oauth:grant-type:saml1_1-bearer",
               assertion |-> claim]
    IN WithAdditional(d0, additionaldata)

\* Authentication.authenticate_with_desktopsso_token:
\* res = await self.requests_post(...) binds the (response, data) pair, so
\* res.status_code is an attribute lookup on a tuple
authenticate_with_desktopsso_token_run(dssotoken, returnreply, additionaldata, resp, now) ==
    LET data == DssoDataV1(dssotoken, additionaldata)
        req == Req("POST", get_authority_url("common"), PathTokenV1, data)
        res == Raise("AttributeError", "'tuple' object has no attribute 'status_code'")
    IN Out(<<req>>, <<resp>>, <<>>, res, tokendata)

authenticate_with_desktopsso_token ==
    /\ pc = "idle"
    /\ \E additionaldata \in AdditionalDatas, returnreply \in BOOLEAN,
          resp \in TokenResponses, now \in Clock :
          Finish([op |-> "authenticate_with_desktopsso_token",
                  additionaldata |-> additionaldata, returnreply |-> returnreply],
                 authenticate_with_desktopsso_token_run(
                     DssoToken, returnreply, additionaldata, resp, now))

\* responses of the token endpoint to grant_type=srv_challenge
ChallengeResponses ==
    { [status |-> 200, json |-> [Nonce |-> "srv-nonce-1"]],
      [status |-> 200, json |-> [Nonce |-> "srv-nonce-2"]],
      [status |-> 400, json |-> ErrorReply] }

SrvChallengeReq ==
    Req("POST", LoginHost \o "common", PathTokenV1, [grant_type |-> "srv_challenge"])

\* Authentication.get_srv_challenge: the data of the response, whatever its status
get_srv_challenge_run(resp) ==
    Out(<<SrvChallengeReq>>, <<resp>>, <<>>, Return(resp.json), tokendata)

get_srv_challenge ==
    /\ pc = "idle"
    /\ \E resp \in ChallengeResponses :
          Finish([op |-> "get_srv_challenge"], get_srv_challenge_run(resp))

-----------------------------------------------------------------------------
(* Query strings and sign-in pages *)

\* index of the first token of s equal to t, 0 when there is none
Find(s, t) ==
    IF \E i \in DOMAIN s : s[i] = t
    THEN CHOOSE i \in DOMAIN s : s[i] = t /\ \A j \in 1..(i - 1) : s[j] # t
    ELSE 0

\* urlparse(url).query: the tokens after the first "?"
UrlQuery(url) ==
    IF Find(url, "?") = 0 THEN <<>> ELSE SubSeq(url, Find(url, "?") + 1, Len(url))

RECURSIVE ParseQsFrom(_, _)
ParseQsFrom(q, acc) ==
    IF Len(q) < 3 THEN acc
    ELSE LET k == q[1]
             v == q[3]
             acc2 == IF HasKey(acc, k) THEN [acc EXCEPT ![k] = Append(@, v)]
                     ELSE DictSet(acc, k, <<v>>)
         IN ParseQsFrom(SubSeq(q, 5, Len(q)), acc2)

\* parse_qs(query): key -> list of values, for a query k = v & k = v ...
parse_qs(q) == ParseQsFrom(q, EmptyDict)

-----------------------------------------------------------------------------
(* The authorize URL *)

\* a str as the sequence of its pieces: each reserved character is a piece, each
\* run of unreserved characters is a piece; "" is Str(<<>>), and NoStr is None
\* passed where a str is expected
Str(chars) == [chars |-> chars]

NoStr == [none |-> TRUE]

\* truth value of `if s:` for such a value
StrTruthy(s) == s # NoStr /\ s # Str(<<>>)

\* the pieces of the strings of the context
Chars(s) ==
    IF s = ResourceUri THEN <<"https", ":", "/", "/", "graph.windows.net", "/">>
    ELSE <<s>>

\* characters quote_plus does not leave as they are
ReservedChars == {" ", ":", "/", "?", "&", "=", "+"}

QuoteChar(c) ==
    CASE c = " " -> "+"
      [] c = ":" -> "%3A"
      [] c = "/" -> "%2F"
      [] c = "?" -> "%3F"
      [] c = "&" -> "%26"
      [] c = "=" -> "%3D"
      [] c = "+" -> "%2B"
      [] OTHER -> c

\* urllib.parse.quote_plus
quote_plus(chars) == [i \in DOMAIN chars |-> QuoteChar(chars[i])]

\* quote_plus left out
NotQuoted(chars) == chars

\* Authentication.build_auth_url without the quoting of its values
build_auth_url_NotQuoted(redirurl, response_type, scopearg, state) ==
    LET st == IF ~StrTruthy(state) THEN <<"uuid4">> ELSE state.chars
        tn == IF ~Truthy(tenant) THEN <<"common">> ELSE Chars(tenant)
    IN IF StrTruthy(scopearg)
       THEN <<LoginHost>> \o NotQuoted(tn)
            \o <<PathAuthorizeV2, "?", "response_type", "=">>
            \o NotQuoted(response_type.chars)
            \o <<"&", "client_id", "=">> \o NotQuoted(Chars(ClientId))
            \o <<"&", "scope", "=">> \o NotQuoted(scopearg.chars)
            \o <<"&", "redirect_uri", "=">> \o NotQuoted(redirurl.chars)
            \o <<"&", "state", "=">> \o NotQuoted(st)
       ELSE <<LoginHost>> \o NotQuoted(tn)
            \o <<PathAuthorizeV1, "?", "response_type", "=">>
            \o NotQuoted(response_type.chars)
            \o <<"&", "client_id", "=">> \o NotQuoted(Chars(ClientId))
            \o <<"&", "resource", "=">> \o NotQuoted(Chars(ResourceUri))
            \o <<"&", "redirect_uri", "=">> \o NotQuoted(redirurl.chars)
            \o <<"&", "state", "=">> \o NotQuoted(st)

\* Authentication.build_auth_url, auth.py 510-541; str(uuid.uuid4()) is "uuid4"
build_auth_url(redirurl, response_type, scopearg, state) ==
    LET st == IF ~StrTruthy(state) THEN <<"uuid4">> ELSE state.chars
        tn == IF ~Truthy(tenant) THEN <<"common">> ELSE Chars(tenant)
    IN IF StrTruthy(scopearg)
       THEN <<LoginHost>> \o quote_plus(tn)
            \o <<PathAuthorizeV2, "?", "response_type", "=">>
            \o quote_plus(response_type.chars)
            \o <<"&", "client_id", "=">> \o quote_plus(Chars(ClientId))
            \o <<"&", "scope", "=">> \o quote_plus(scopearg.chars)
            \o <<"&", "redirect_uri", "=">> \o quote_plus(redirurl.chars)
            \o <<"&", "state", "=">> \o quote_plus(st)
       ELSE <<LoginHost>> \o quote_plus(tn)
            \o <<PathAuthorizeV1, "?", "response_type", "=">>
            \o quote_plus(response_type.chars)
            \o <<"&", "client_id", "=">> \o quote_plus(Chars(ClientId))
            \o <<"&", "resource", "=">> \o quote_plus(Chars(ResourceUri))
            \o <<"&", "redirect_uri", "=">> \o quote_plus(redirurl.chars)
            \o <<"&", "state", "=">> \o quote_plus(st)

\* redirect URLs, scopes and states a caller may pass
AuthUrlRedirects ==
    { Str(<<"https", ":", "/", "/", "x", "/", "y">>),
      Str(<<"https", ":", "/", "/", "x", "/", "cb", "?", "a", "=", "b", "&", "c", "=", "d">>) }

AuthUrlScopes == { NoStr, Str(<<>>), Str(<<"openid", " ", "profile">>) }

AuthUrlStates == { NoStr, Str(<<>>), Str(<<"S0">>), Str(<<"a", "+", "b", "&", "c">>) }

build_auth_url_call ==
    /\ pc = "idle"
    /\ \E redirurl \in AuthUrlRedirects, scopearg \in AuthUrlScopes,
          state \in AuthUrlStates :
          Finish([op |-> "build_auth_url", redirurl |-> redirurl,
                  response_type |-> Str(<<"code">>), scope |-> scopearg,
                  state |-> state],
                 Out(<<>>, <<>>, <<>>,
                     Return(build_auth_url(redirurl, Str(<<"code">>), scopearg, state)),
                     tokendata))

\* a sign-in page whose script block holds $Config=<config>;
PageWithConfig(config) ==
    << PlainText("<html><script>//<![CDATA["), PlainText("$Config="), config,
       PlainText(";"), PlainText("\n"), PlainText("//]]></script>"),
       PlainText("</html>") >>

PageWithoutConfig == << PlainText("<html>"), PlainText("</html>") >>

\* resdata[startpos+8:stoppos-2], "$Config=" being 8 bytes and one token,
\* ";" and "\n" one byte and one token each
ConfigSlice(resdata) ==
    SubSeq(resdata, Find(resdata, PlainText("$Config=")) + 1,
           Find(resdata, PlainText("//]]></script>")) - 3)

\* json.loads of a slice of a page
JsonLoadsBytes(slice) ==
    IF Len(slice) = 1 /\ IsJson(slice[1]) THEN Return(slice[1].json)
    ELSE Raise("JSONDecodeError", None)

-----------------------------------------------------------------------------
(* Nonce for a PRT cookie *)

GetNonceReq ==
    Req("GET", LoginHost \o "Common", "/oauth2/authorize/",
        [resource |-> ResourceUri, client_id |-> ClientId, response_type |-> "code",
         haschrome |-> "1", redirect_uri |-> <<RedirectUriDefault>>,
         site_id |-> "501358"])

NonceResponses ==
    { [status |-> 302, body |-> <<>>,
       location |-> <<"https://login.microsoftonline.com/common/reprocess", "?",
                      "sso_nonce", "=", "nonce-1", "&", "ctx", "=", "x">>],
      [status |-> 302, body |-> <<>>,
       location |-> <<"https://login.microsoftonline.com/common/reprocess", "?",
                      "ctx", "=", "x">>],
      [status |-> 200, location |-> <<>>,
       body |-> PageWithConfig(JsonText([bsso |-> [nonce |-> "nonce-2"]]))],
      [status |-> 200, location |-> <<>>,
       body |-> PageWithConfig(JsonText([strMainMessage |-> "blocked"]))],
      [status |-> 200, location |-> <<>>,
       body |-> PageWithConfig(PlainText("{broken"))],
      [status |-> 200, location |-> <<>>, body |-> PageWithoutConfig] }

\* Authentication.get_prt_cookie_nonce after its request: outcome and prints
get_prt_cookie_nonce_result(res) ==
    IF res.status = 302 /\ res.location # <<>>
    THEN LET qdata == parse_qs(UrlQuery(res.location))
         IN IF ~HasKey(qdata, "sso_nonce")
            THEN [result |-> ReturnNone, printed |-> <<"No nonce found in redirect!">>]
            ELSE [result |-> Return(qdata["sso_nonce"][1]), printed |-> <<>>]
    ELSE IF Find(res.body, PlainText("$Config=")) = 0
            \/ Find(res.body, PlainText("//]]></script>")) = 0
    THEN [result |-> ReturnNone,
          printed |-> <<"No redirect or nonce config was returned!">>]
    ELSE LET parsed == JsonLoadsBytes(ConfigSlice(res.body))
         IN IF parsed.kind = "raise"
            THEN \* the except clause prints and falls through to jdata['bsso'],
                 \* jdata never having been bound
                 [result |-> Raise("UnboundLocalError", "jdata"),
                  printed |-> <<"Failed to parse config JSON">>]
            ELSE IF HasKey(parsed.val, "bsso") /\ HasKey(parsed.val["bsso"], "nonce")
            THEN [result |-> Return(parsed.val["bsso"]["nonce"]), printed |-> <<>>]
            ELSE [result |-> ReturnNone,
                  printed |-> <<"No nonce found in browser config">>]

\* the value the caller of get_prt_cookie_nonce binds
NonceOf(r) == IF r.kind = "return" THEN r.val ELSE None

get_prt_cookie_nonce ==
    /\ pc = "idle"
    /\ \E res \in NonceResponses :
          LET r == get_prt_cookie_nonce_result(res)
          IN Finish([op |-> "get_prt_cookie_nonce"],
                    Out(<<GetNonceReq>>, <<res>>, r.printed, r.result, tokendata))

-----------------------------------------------------------------------------
(* PRT cookies *)

Prt == "0.AAAA.prt"

\* keys a caller may pass as derived_key; no key is EmptyDict
GoodKey == KBKDF(SessionKey, CtxC)

BadKey == [raw |-> "some-other-key"]

\* cookies a caller may pass: signed with GoodKey under context "ctx-c"
CookieWithNonce ==
    jwt_encode([refresh_token |-> Prt, is_primary |-> "true",
                request_nonce |-> "nonce-0"], GoodKey, [ctx |-> B64(CtxC)])

CookieWithoutNonce ==
    jwt_encode([refresh_token |-> Prt, is_primary |-> "true"], GoodKey,
               [ctx |-> B64(CtxC)])

\* Authentication.create_prt_cookie_kdf_ver_2; now is time.time()
create_prt_cookie_kdf_ver_2(prt, sessionkey, nonce, now) ==
    LET context == RandomContext
        headers == [ctx |-> B64(context), kdf_ver |-> 2]
        payload == IF Truthy(nonce)
                   THEN [refresh_token |-> prt, is_primary |-> "true",
                         request_nonce |-> nonce]
                   ELSE [refresh_token |-> prt, is_primary |-> "true", iat |-> now]
        tempjwt == jwt_encode(payload, [random |-> "os.urandom(32)"], headers)
        jwtbody == b64decode_padded(tempjwt.body)
        derived_key == calculate_derived_key_v2(sessionkey, context, jwtbody.val)[2]
    IN IF jwtbody.kind = "raise" THEN jwtbody
       ELSE Return(jwt_encode(payload, derived_key, headers))

\* Authentication.create_prt_cookie_kdf_ver_2 called on its own
create_prt_cookie_kdf_ver_2_call ==
    /\ pc = "idle"
    /\ \E prt \in {Prt, PrtUrlChar}, sessionkey \in {SessionKey, OtherSessionKey},
          nonce \in {None, "nonce-1"}, now \in Clock :
          Finish([op |-> "create_prt_cookie_kdf_ver_2", prt |-> prt,
                  sessionkey |-> sessionkey, nonce |-> nonce],
                 Out(<<>>, <<>>, <<>>,
                     create_prt_cookie_kdf_ver_2(prt, sessionkey, nonce, now), tokendata))

\* locals of authenticate_with_prt_cookie called with its defaults
CookieDefaults(cookie) ==
    [cookie |-> cookie, context |-> NoContext, derived_key |-> EmptyDict,
     verify_only |-> FALSE, sessionkey |-> None, redirurl |-> <<>>,
     return_code |-> FALSE, nonce |-> None, redirect_uri |-> <<>>]

CookieArgs ==
    { [CookieDefaults(ck) EXCEPT !.context = cx, !.derived_key = dk,
                                 !.verify_only = vo, !.sessionkey = sk] :
        ck \in {CookieWithNonce, CookieWithoutNonce}, cx \in {NoContext, CtxC},
        dk \in {EmptyDict, GoodKey, BadKey}, vo \in BOOLEAN,
        sk \in {None, SessionKey} }
    \cup { [CookieDefaults(ck) EXCEPT !.derived_key = dk, !.return_code = TRUE] :
              ck \in {CookieWithNonce, CookieWithoutNonce},
              dk \in {EmptyDict, GoodKey} }

\* the authorize endpoint chosen whatever the scope
AuthorizePath_AlwaysV1 == PathAuthorizeV1

\* auth.py 832-840: the authorize endpoint, v2.0 when a scope is set
AuthorizePath == IF Truthy(scope) THEN PathAuthorizeV2 ELSE PathAuthorizeV1

\* auth.py 811-856: build the authorize request and send it
CookieAuthorize(c, f, l, rs, p, p0, cookie, nonce) ==
    LET params0 == [client_id |-> ClientId, response_type |-> "code",
                    haschrome |-> "1", redirect_uri |-> <<RedirectUriDefault>>,
                    site_id |-> "501358", sso_nonce |-> nonce]
        params1 == IF Truthy(scope) THEN DictSet(params0, "scope", scope)
                   ELSE DictSet(params0, "resource", ResourceUri)
        path == AuthorizePath
        params == IF f.redirurl # <<>> THEN DictSet(params1, "redirect_uri", f.redirurl)
                  ELSE params1
        req == [method |-> "GET", base |-> get_authority_url("common"), path |-> path,
                transport |-> httptransport,
                data |-> params, cookies |-> [x_ms_RefreshTokenCredential |-> cookie]]
    IN Suspend(c, [f EXCEPT !.cookie = cookie, !.nonce = nonce,
                            !.redirect_uri = params["redirect_uri"]],
               Append(l, req), rs, p, "cookie_authorize", p0)

\* auth.py 773-809 up to the second nonce request
CookieAfterNonce(c, f, l, rs, p, p0, nonce) ==
    LET dk == IF f.derived_key = EmptyDict /\ Truthy(f.sessionkey)
              THEN calculate_derived_key(f.sessionkey, f.context)
              ELSE <<f.context, f.derived_key>>
        context == dk[1]
        derived_key == dk[2]
        again == Suspend(c, [f EXCEPT !.context = context, !.derived_key = derived_key,
                                      !.nonce = nonce],
                         Append(l, GetNonceReq), rs, p, "cookie_nonce2", p0)
    IN IF derived_key = EmptyDict
       THEN CookieAuthorize(c, f, l, rs, p, p0, f.cookie, nonce)
       ELSE IF context = NoContext \/ f.verify_only
       THEN IF jwt_decode(f.cookie, derived_key).kind = "raise"
            THEN End(c, l, rs, Append(p, "Signature invalid with given derived key"),
                     ReturnFalse, tokendata, p0)
            ELSE IF f.verify_only
            THEN End(c, l, rs, Append(p, "PRT verified with given derived key!"),
                     ReturnFalse, tokendata, p0)
            ELSE again
       ELSE again

\* auth.py 760-771 up to the first nonce request
CookieStart(c, f, l, rs, p, p0) ==
    LET jdata == jwt_decode_unverified(f.cookie)
    IN IF ~HasKey(jdata, "request_nonce")
       THEN Suspend(c, f, Append(l, GetNonceReq), rs, p, "cookie_nonce1", p0)
       ELSE CookieAfterNonce(c, f, l, rs, p, p0, jdata["request_nonce"])

authenticate_with_prt_cookie ==
    /\ pc = "idle"
    /\ \E f \in CookieArgs :
          CookieStart([op |-> "authenticate_with_prt_cookie", args |-> f], f,
                      <<>>, <<>>, <<>>, tokendata)

\* auth.py 764-769: the nonce requested for a cookie that has none
CookieNonce1 ==
    /\ pc = "cookie_nonce1"
    /\ \E res \in NonceResponses :
          LET r == get_prt_cookie_nonce_result(res)
              rs == Append(resps, res)
              p == printed \o r.printed
              nonce == NonceOf(r.result)
          IN IF r.result.kind = "raise"
             THEN End(call, log, rs, p, r.result, tokendata, pre)
             ELSE IF ~Truthy(nonce)
             THEN End(call, log, rs, p, ReturnFalse, tokendata, pre)
             ELSE IF frame.derived_key = EmptyDict /\ ~Truthy(frame.sessionkey)
             THEN End(call, log, rs,
                      Append(p, <<"Requested nonce from server to use with ROADtoken",
                                  nonce>>),
                      ReturnFalse, tokendata, pre)
             ELSE CookieAfterNonce(call, frame, log, rs,
                      Append(p, <<"Requested nonce from server to use with ROADtoken",
                                  nonce>>),
                      pre, nonce)

\* auth.py 794-809: the new nonce requested because a key was given, and the
\* cookie signed again
CookieNonce2 ==
    /\ pc = "cookie_nonce2"
    /\ \E res \in NonceResponses :
          LET r == get_prt_cookie_nonce_result(res)
              rs == Append(resps, res)
              p == printed \o r.printed
              nonce == NonceOf(r.result)
              headers == frame.cookie.headers
              jdata == DictSet(jwt_decode_unverified(frame.cookie), "request_nonce",
                               nonce)
              newheaders == IF frame.context # NoContext
                            THEN [ctx |-> B64(frame.context)]
                            ELSE [ctx |-> headers["ctx"]]
              cookie == jwt_encode(jdata, frame.derived_key, newheaders)
              msg == IF frame.context # NoContext
                     THEN "Re-signed PRT cookie using custom context"
                     ELSE "Re-signed PRT cookie using derived key"
          IN IF r.result.kind = "raise"
             THEN End(call, log, rs, p, r.result, tokendata, pre)
             ELSE CookieAuthorize(call, frame, log, rs, Append(p, msg), pre, cookie,
                                  nonce)

EvilHost == "https://evil.example/cb"

AuthorizeResponses ==
    { [status |-> 302, body |-> <<>>,
       location |-> <<RedirectUriDefault, "?", "code", "=", "ABC", "&",
                      "state", "=", "S">>],
      [status |-> 302, body |-> <<>>,
       location |-> <<EvilHost, "?", "ru", "=", RedirectUriDefault, "&",
                      "code", "=", "EVILCODE">>],
      [status |-> 302, body |-> <<>>,
       location |-> <<RedirectUriDefault, "?", "error", "=", "access_denied">>],
      [status |-> 302, body |-> <<>>,
       location |-> <<"https://login.microsoftonline.com/common/reprocess", "?",
                      "sso_nonce", "=", "nonce-3">>],
      [status |-> 200, location |-> <<>>,
       body |-> PageWithConfig(JsonText([strMainMessage |-> "Sign in failed",
                                         strAdditionalMessage |-> "Blocked by CA",
                                         strServiceExceptionMessage |-> "AADSTS53003"]))],
      [status |-> 200, location |-> <<>>,
       body |-> PageWithConfig(JsonText([strMainMessage |-> "Sign in failed",
                                         strServiceExceptionMessage |-> "AADSTS53003"]))],
      [status |-> 200, location |-> <<>>,
       body |-> PageWithConfig(JsonText([strServiceExceptionMessage |-> "AADSTS53003"]))],
      [status |-> 200, location |-> <<>>,
       body |-> PageWithConfig(PlainText("{broken"))],
      [status |-> 200, location |-> <<>>, body |-> PageWithoutConfig] }

\* auth.py 858: the test that takes an authorize response as carrying the code
AuthorizeSuccess(res, redirect_uri) ==
    res.status = 302 /\ Contains(Lower(res.location), Lower(redirect_uri))

\* auth.py 884-892: the messages of the error page that get printed
ErrorMessages(jdata) ==
    IF ~HasKey(jdata, "strMainMessage") THEN <<>>
    ELSE <<<<"Error from STS", jdata["strMainMessage"]>>>> \o
         (IF ~HasKey(jdata, "strAdditionalMessage") THEN <<>>
          ELSE <<<<"Additional info", jdata["strAdditionalMessage"]>>>> \o
               (IF ~HasKey(jdata, "strServiceExceptionMessage") THEN <<>>
                ELSE <<<<"Exception", jdata["strServiceExceptionMessage"]>>>>))

\* the new nonce of a redirect is not reported
NoCodePrints_Silent(res) ==
    <<"No authentication code was returned, make sure the PRT cookie is valid",
      "It is also possible that the sign-in was blocked by Conditional Access policies">>

\* auth.py 865-897: what is printed when no code came back
NoCodePrints(res) ==
    LET qdata == parse_qs(UrlQuery(res.location))
        p1 == IF res.status = 302 /\ Contains(Lower(res.location), <<"sso_nonce">>)
                 /\ HasKey(qdata, "sso_nonce")
              THEN <<<<"Redirected with new nonce. Old nonce may be expired. New nonce",
                       qdata["sso_nonce"][1]>>>>
              ELSE <<>>
        found == Find(res.body, PlainText("$Config=")) # 0
                 /\ Find(res.body, PlainText("//]]></script>")) # 0
        parsed == JsonLoadsBytes(ConfigSlice(res.body))
        p2 == IF found /\ parsed.kind = "return" THEN ErrorMessages(parsed.val) ELSE <<>>
    IN p1 \o p2 \o
       <<"No authentication code was returned, make sure the PRT cookie is valid",
         "It is also possible that the sign-in was blocked by Conditional Access policies">>

\* the coroutine object coderedeemfunc(code, redirect_uri) returned without
\* having been awaited: nothing of authenticate_with_code_native[_v2] has run
Coroutine(func, code, redirurl) ==
    [kind |-> "coroutine", func |-> func, code |-> code, redirurl |-> redirurl]

\* auth.py 856-897: the response to the authorize request
CookieAuthorizeResponse ==
    /\ pc = "cookie_authorize"
    /\ \E res \in AuthorizeResponses :
          LET rs == Append(resps, res)
              qdata == parse_qs(UrlQuery(res.location))
              coderedeemfunc == IF Truthy(scope) THEN "authenticate_with_code_native_v2"
                                ELSE "authenticate_with_code_native"
          IN IF AuthorizeSuccess(res, frame.redirect_uri)
             THEN IF ~HasKey(qdata, "code")
                  THEN End(call, log, rs, printed, Raise("KeyError", "code"),
                           tokendata, pre)
                  ELSE IF frame.return_code
                  THEN End(call, log, rs, printed, Return(qdata["code"][1]),
                           tokendata, pre)
                  ELSE End(call, log, rs, printed,
                           Coroutine(coderedeemfunc, qdata["code"][1],
                                     frame.redirect_uri),
                           tokendata, pre)
             ELSE End(call, log, rs, printed \o NoCodePrints(res), ReturnFalse,
                      tokendata, pre)

-----------------------------------------------------------------------------
(* PRT-backed authentication *)

\* auth.py 580: authenticate_with_prt_v2 requests a nonce
authenticate_with_prt_v2_start(c) ==
    Suspend(c, [prt |-> Prt, sessionkey |-> SessionKey], <<GetNonceReq>>, <<>>, <<>>,
            "prt_v2_nonce", tokendata)

authenticate_with_prt_v2 ==
    /\ pc = "idle"
    /\ authenticate_with_prt_v2_start([op |-> "authenticate_with_prt_v2"])

\* auth.py 580-585: the nonce arrives; the cookie is built and handed to
\* authenticate_with_prt_cookie
PrtV2Nonce ==
    /\ pc = "prt_v2_nonce"
    /\ \E res \in NonceResponses, now \in Clock :
          LET r == get_prt_cookie_nonce_result(res)
              rs == Append(resps, res)
              p == printed \o r.printed
              nonce == NonceOf(r.result)
              cookie == create_prt_cookie_kdf_ver_2(frame.prt, frame.sessionkey,
                                                    nonce, now)
          IN IF r.result.kind = "raise"
             THEN End(call, log, rs, p, r.result, tokendata, pre)
             ELSE IF ~Truthy(nonce)
             THEN End(call, log, rs, p, ReturnFalse, tokendata, pre)
             ELSE IF cookie.kind = "raise"
             THEN End(call, log, rs, p, cookie, tokendata, pre)
             ELSE CookieStart(call, CookieDefaults(cookie.val), log, rs, p, pre)

\* arguments of authenticate_with_prt: context, derived_key, sessionkey
PrtV1Args ==
    { [prt |-> Prt, context |-> cx, derived_key |-> dk, sessionkey |-> sk] :
        cx \in {NoContext, CtxC}, dk \in {EmptyDict, GoodKey}, sk \in {None, SessionKey} }

\* auth.py 592-599: the key and the header are computed, then a nonce requested
authenticate_with_prt_start(c, a) ==
    LET dk == IF a.derived_key = EmptyDict /\ Truthy(a.sessionkey)
              THEN calculate_derived_key(a.sessionkey, a.context)
              ELSE <<a.context, a.derived_key>>
    IN IF dk[1] = NoContext
       THEN \* base64.b64encode(None)
            End(c, <<>>, <<>>, <<>>, Raise("TypeError", "b64encode"), tokendata,
                tokendata)
       ELSE Suspend(c, [a EXCEPT !.context = dk[1], !.derived_key = dk[2]],
                    <<GetNonceReq>>, <<>>, <<>>, "prt_nonce", tokendata)

authenticate_with_prt ==
    /\ pc = "idle"
    /\ \E a \in PrtV1Args :
          authenticate_with_prt_start([op |-> "authenticate_with_prt", args |-> a], a)

\* auth.py 599-608
PrtNonce ==
    /\ pc = "prt_nonce"
    /\ \E res \in NonceResponses :
          LET r == get_prt_cookie_nonce_result(res)
              rs == Append(resps, res)
              p == printed \o r.printed
              nonce == NonceOf(r.result)
              payload == [refresh_token |-> frame.prt, is_primary |-> "true",
                          request_nonce |-> nonce]
              cookie == jwt_encode(payload, frame.derived_key,
                                   [ctx |-> B64(frame.context)])
          IN IF r.result.kind = "raise"
             THEN End(call, log, rs, p, r.result, tokendata, pre)
             ELSE IF ~Truthy(nonce)
             THEN End(call, log, rs, p, ReturnFalse, tokendata, pre)
             ELSE IF frame.derived_key = EmptyDict
             THEN \* jwt.encode with key None
                  End(call, log, rs, p, Raise("TypeError", "jwt key"), tokendata, pre)
             ELSE CookieStart(call, CookieDefaults(cookie), log, rs, p, pre)

-----------------------------------------------------------------------------
(* get_tokens *)

NoToken == <<>>

AT3 == Jwt([exp |-> 7, tid |-> "tenant-1", appid |-> "app-1"])

\* a hex string on the command line and what binascii.unhexlify makes of it
Hex(x) == [hex |-> x]

NoHex == EmptyDict

Unhexlify(h) == h.hex

\* Authentication.ensure_binary_derivedkey
ensure_binary_derivedkey(derived_key) ==
    IF derived_key = NoHex THEN EmptyDict ELSE Unhexlify(derived_key)

\* Authentication.ensure_binary_context
ensure_binary_context(context) ==
    IF context = NoHex THEN NoContext ELSE Unhexlify(context)

\* Authentication.ensure_binary_sessionkey, for a key given as hex
ensure_binary_sessionkey(sessionkey) ==
    IF sessionkey = NoHex THEN None ELSE Unhexlify(sessionkey)

\* Authentication.ensure_plain_prt, for a PRT that holds a "."
ensure_plain_prt(prt) == prt

\* Authentication.parse_accesstoken: the token object
parse_accesstoken(token) ==
    LET parsed == JsonLoads(B64Decode(token[2]))
        claims == parsed.val
        get(k) == IF HasKey(claims, k) THEN claims[k] ELSE None
    IN IF parsed.kind = "raise" THEN parsed
       ELSE IF ~HasKey(claims, "exp") THEN Raise("KeyError", "exp")
       ELSE Return([accessToken |-> token, tokenType |-> "Bearer",
                    expiresOn |-> Strftime(claims["exp"]),
                    tenantId |-> get("tid"), _clientId |-> get("appid")])

\* the fields parse_args sets and the arguments get_tokens reads
NoArgs ==
    [refresh_token |-> None, access_token |-> NoToken, username |-> None,
     password |-> None, saml_token |-> None, as_app |-> FALSE, device_code |-> FALSE,
     prt_init |-> FALSE, prt_cookie |-> EmptyDict, derived_key |-> NoHex,
     prt_context |-> NoHex, prt_sessionkey |-> NoHex, prt_verify |-> FALSE,
     prt |-> None, kdf_v1 |-> FALSE]

GetTokensArgs ==
    { NoArgs,
      [NoArgs EXCEPT !.refresh_token = RefreshToken],
      [NoArgs EXCEPT !.access_token = AT3],
      [NoArgs EXCEPT !.username = Username, !.password = Password],
      [NoArgs EXCEPT !.saml_token = SamlToken],
      [NoArgs EXCEPT !.password = Password, !.as_app = TRUE],
      [NoArgs EXCEPT !.device_code = TRUE],
      [NoArgs EXCEPT !.prt_init = TRUE],
      [NoArgs EXCEPT !.prt_cookie = CookieWithNonce],
      [NoArgs EXCEPT !.prt_cookie = CookieWithoutNonce],
      [NoArgs EXCEPT !.prt_cookie = CookieWithNonce, !.prt_verify = TRUE],
      [NoArgs EXCEPT !.prt_cookie = CookieWithNonce, !.derived_key = Hex(GoodKey),
                     !.prt_verify = TRUE],
      [NoArgs EXCEPT !.prt_cookie = CookieWithNonce, !.derived_key = Hex(GoodKey)],
      [NoArgs EXCEPT !.prt_cookie = CookieWithoutNonce,
                     !.prt_sessionkey = Hex(SessionKey), !.prt_context = Hex(CtxC)],
      [NoArgs EXCEPT !.prt = Prt, !.prt_context = Hex(CtxC),
                     !.derived_key = Hex(GoodKey)],
      [NoArgs EXCEPT !.prt = Prt, !.prt_sessionkey = Hex(SessionKey),
                     !.kdf_v1 = TRUE],
      [NoArgs EXCEPT !.prt = Prt, !.prt_sessionkey = Hex(SessionKey)] }

\* str(ex) of an AuthenticationException: the text it was raised with, or the
\* repr of the object it was raised with
StrOfException(v) == IF IsJson(v) THEN v ELSE PlainText(<<"repr", v>>)

\* auth.py 1302-1310: the except clause of get_tokens applied to what a flow did
get_tokens_except(o) ==
    IF o.result.kind = "raise" /\ o.result.exc = "AuthenticationException"
    THEN LET error_data == JsonLoads(StrOfException(o.result.val))
         IN IF error_data.kind = "raise"
            THEN \* json.JSONDecodeError is a ValueError: except TypeError lets it pass
                 [o EXCEPT !.result = Raise("JSONDecodeError", o.result.val)]
            ELSE IF ~HasKey(error_data.val, "error_description")
            THEN [o EXCEPT !.result = Raise("KeyError", "error_description")]
            ELSE [o EXCEPT !.printed = Append(@, <<"Error during authentication",
                                                   error_data.val["error_description"]>>),
                           !.result = Raise("SystemExit", 1)]
    ELSE o

\* Authentication.get_tokens, auth.py 1227-1314
get_tokens ==
    /\ pc = "idle"
    /\ \E a \in GetTokensArgs, resp \in TokenResponses, res \in NonceResponses,
          now \in Clock :
          LET c == [op |-> "get_tokens", args |-> a]
              parsed == parse_accesstoken(a.access_token)
              nonce == get_prt_cookie_nonce_result(res)
          IN IF tokendata # EmptyDict
             THEN Finish(c, Out(<<>>, <<>>, <<>>, Return(tokendata), tokendata))
             ELSE IF Truthy(a.refresh_token) /\ a.access_token = NoToken
             THEN IF Truthy(scope)
                  THEN Finish(c, get_tokens_except(
                           authenticate_with_refresh_native_v2_run(
                               a.refresh_token, a.password, EmptyDict, FALSE, resp, now)))
                  ELSE Finish(c, get_tokens_except(
                           authenticate_with_refresh_native_run(
                               a.refresh_token, a.password, EmptyDict, FALSE, resp, now)))
             ELSE IF a.access_token # NoToken /\ ~Truthy(a.refresh_token)
             THEN Finish(c, Out(<<>>, <<>>, <<>>, parsed,
                                IF parsed.kind = "return" THEN parsed.val ELSE tokendata))
             ELSE IF Truthy(a.username) /\ Truthy(a.password)
             THEN IF Truthy(scope)
                  THEN Finish(c, get_tokens_except(
                           authenticate_username_password_native_v2_run(
                               None, EmptyDict, FALSE, resp, now)))
                  ELSE Finish(c, get_tokens_except(
                           authenticate_username_password_native_run(
                               None, EmptyDict, FALSE, resp, now)))
             ELSE IF Truthy(a.saml_token)
             THEN IF Truthy(scope)
                  THEN Finish(c, get_tokens_except(
                           authenticate_with_saml_native_v2_run(
                               a.saml_token, EmptyDict, FALSE, resp, now)))
                  ELSE Finish(c, get_tokens_except(
                           authenticate_with_saml_native_run(
                               a.saml_token, EmptyDict, FALSE, resp, now)))
             ELSE IF a.as_app /\ Truthy(a.password)
             THEN Finish(c, Out(<<>>, <<>>, <<>>,
                                Raise("Exception", "App auth not supported yet"),
                                tokendata))
             ELSE IF a.device_code
             THEN Finish(c, Out(<<>>, <<>>, <<>>,
                                Raise("Exception", "Device code auth not supported yet"),
                                tokendata))
             ELSE IF a.prt_init
             THEN Finish(c, Out(<<GetNonceReq>>, <<res>>,
                                IF Truthy(NonceOf(nonce.result))
                                THEN Append(nonce.printed,
                                       <<"Requested nonce from server to use with ROADtoken",
                                         NonceOf(nonce.result)>>)
                                ELSE nonce.printed,
                                IF nonce.result.kind = "raise" THEN nonce.result
                                ELSE ReturnFalse,
                                tokendata))
             ELSE IF a.prt_cookie # EmptyDict
             THEN CookieStart(c,
                      [CookieDefaults(a.prt_cookie) EXCEPT
                          !.context = ensure_binary_context(a.prt_context),
                          !.derived_key = ensure_binary_derivedkey(a.derived_key),
                          !.verify_only = a.prt_verify,
                          !.sessionkey = ensure_binary_sessionkey(a.prt_sessionkey)],
                      <<>>, <<>>, <<>>, tokendata)
             ELSE IF Truthy(a.prt) /\ a.prt_context # NoHex /\ a.derived_key # NoHex
             THEN authenticate_with_prt_start(c,
                      [prt |-> ensure_plain_prt(a.prt),
                       context |-> ensure_binary_context(a.prt_context),
                       derived_key |-> ensure_binary_derivedkey(a.derived_key),
                       sessionkey |-> None])
             ELSE IF Truthy(a.prt) /\ a.prt_sessionkey # NoHex
             THEN IF a.kdf_v1
                  THEN authenticate_with_prt_start(c,
                           [prt |-> ensure_plain_prt(a.prt), context |-> NoContext,
                            derived_key |-> EmptyDict,
                            sessionkey |-> ensure_binary_sessionkey(a.prt_sessionkey)])
                  ELSE authenticate_with_prt_v2_start(c)
             ELSE Finish(c, Out(<<>>, <<>>,
                                <<"Not enough information was supplied to authenticate">>,
                                ReturnFalse, tokendata))

-----------------------------------------------------------------------------
(* DeviceAuthentication: device state and PRT acquisition *)

\* DeviceAuthentication.__init__
NewDevice ==
    [certificate |-> None, privkey |-> None, keydata |-> None,
     transportprivkey |-> None, transportkeydata |-> None,
     prt |-> None, session_key |-> None]

DeviceCert == "device-certificate"

DeviceKey == "device-key"

OtherKey == "other-key"

\* the PEM text of a private key
Pem(key) == "PEM:" \o key

LoadcertArgs ==
    { [pemfile |-> "device.pem", privkeyfile |-> "device.key", pfxfile |-> None],
      [pemfile |-> None, privkeyfile |-> None, pfxfile |-> "device.pfx"],
      [pemfile |-> "device.pem", privkeyfile |-> None, pfxfile |-> None] }

\* the device after DeviceAuthentication.loadcert loaded a keypair
LoadedDevice(d) ==
    [d EXCEPT !.certificate = DeviceCert, !.privkey = DeviceKey,
              !.keydata = Pem(DeviceKey), !.transportprivkey = DeviceKey,
              !.transportkeydata = Pem(DeviceKey)]

\* an operation of the device object ends, leaving the device as d
EndDevice(c, l, rs, p, r, d) ==
    /\ call' = c
    /\ log' = l
    /\ resps' = rs
    /\ printed' = p
    /\ result' = r
    /\ pre' = tokendata
    /\ pc' = "done"
    /\ frame' = EmptyDict
    /\ dev' = d
    /\ UNCHANGED <<tenant, scope, tokendata, httptransport, cancel, disk>>

\* DeviceAuthentication.loadcert
loadcert ==
    /\ pc = "idle"
    /\ \E a \in LoadcertArgs :
          LET c == [op |-> "loadcert", args |-> a]
          IN IF (Truthy(a.pemfile) /\ Truthy(a.privkeyfile)) \/ Truthy(a.pfxfile)
             THEN EndDevice(c, <<>>, <<>>, <<>>, Return(TRUE), LoadedDevice(dev))
             ELSE EndDevice(c, <<>>, <<>>, <<>>, ReturnFalse, dev)

\* serialization.load_pem_private_key(data, password=None); None is no bytes
load_pem_private_key(data) ==
    IF data = None THEN Raise("TypeError", "data")
    ELSE IF data = Pem(DeviceKey) THEN Return(DeviceKey)
    ELSE Return(OtherKey)

\* key.private_bytes(encoding=PEM, ...); None has no such method
private_bytes(key) ==
    IF key = None THEN Raise("AttributeError", "private_bytes") ELSE Return(Pem(key))

\* the key a private-key file or a PFX given to loadkey holds, and the
\* certificate of the PFX
TransportKeyFile == [key |-> OtherKey, certificate |-> "other-certificate"]

LoadkeyArgs ==
    { [privkeyfile |-> f, pfxfile |-> x, transport_only |-> t] :
        f \in {None, "transport.key"}, x \in {None, "transport.pfx"}, t \in BOOLEAN }

\* DeviceAuthentication.loadkey: the device it leaves and what it returns or
\* raises; an assignment made before a raise stays
loadkey_run(d, a) ==
    LET k == TransportKeyFile.key
    IN IF Truthy(a.privkeyfile)
       THEN IF a.transport_only
            THEN LET d1 == [d EXCEPT !.transportkeydata = Pem(k)]
                     loaded == load_pem_private_key(d1.keydata)
                 IN IF loaded.kind = "raise" THEN [dev |-> d1, result |-> loaded]
                    ELSE [dev |-> [d1 EXCEPT !.transportprivkey = loaded.val],
                          result |-> Return(TRUE)]
            ELSE [dev |-> [d EXCEPT !.transportkeydata = Pem(k), !.keydata = Pem(k),
                                    !.transportprivkey = load_pem_private_key(Pem(k)).val,
                                    !.privkey = load_pem_private_key(Pem(k)).val],
                  result |-> Return(TRUE)]
       ELSE IF Truthy(a.pfxfile)
       THEN IF ~a.transport_only
            THEN [dev |-> [d EXCEPT !.privkey = k,
                                    !.certificate = TransportKeyFile.certificate,
                                    !.transportprivkey = k,
                                    !.transportkeydata = private_bytes(k).val,
                                    !.keydata = private_bytes(k).val],
                  result |-> Return(TRUE)]
            ELSE LET d1 == [d EXCEPT !.transportprivkey = k]
                     pem == private_bytes(d1.privkey)
                 IN IF pem.kind = "raise" THEN [dev |-> d1, result |-> pem]
                    ELSE [dev |-> [d1 EXCEPT !.transportkeydata = pem.val],
                          result |-> Return(TRUE)]
       ELSE [dev |-> d, result |-> ReturnFalse]

loadkey ==
    /\ pc = "idle"
    /\ \E a \in LoadkeyArgs :
          EndDevice([op |-> "loadkey", args |-> a], <<>>, <<>>, <<>>,
                    loadkey_run(dev, a).result, loadkey_run(dev, a).dev)

\* x509 certificate in DER, base64
X5c(certificate) == B64([der |-> certificate])

\* RSA-OAEP encryption of pt to the holder of key
RsaOaep(key, pt) == [rsa_for |-> key, pt |-> pt]

\* a compact JWE: header, wrapped key, and the rest
SessionKeyJwe(key, pt) == <<"hdr", B64(RsaOaep(key, pt)), "iv", "ct", "tag">>

\* DeviceAuthentication.decrypt_jwe_with_transport_key
decrypt_jwe_with_transport_key(d, jwetoken) ==
    LET wrapped_key == B64Decode(jwetoken[2])
    IN IF d.transportprivkey = None THEN Raise("AttributeError", "decrypt")
       ELSE IF wrapped_key.rsa_for # d.transportprivkey
       THEN Raise("ValueError", "Decryption failed")
       ELSE Return(wrapped_key.pt)

JwtBearer == "urn:ietf:params:oauth:grant-type:jwt-bearer"

\* the request of request_token_with_devicecert_signed_payload
DeviceSignedReq(d, payload) ==
    Req("POST", LoginHost \o "common", PathTokenV1,
        [windows_api_version |-> "2.2", grant_type |-> JwtBearer,
         request |-> jwt_encode(payload, d.keydata,
                                [x5c |-> X5c(d.certificate), kdf_ver |-> 2]),
         client_info |-> "1", tgt |-> TRUE])

PrtReply == [token_type |-> "Bearer", refresh_token |-> "new-prt",
             session_key_jwe |-> SessionKeyJwe(DeviceKey, SessionKey)]

\* replies of the token endpoint to a device-signed request
PrtReplies ==
    { PrtReply,
      [PrtReply EXCEPT !.session_key_jwe = SessionKeyJwe(OtherKey, SessionKey)],
      [token_type |-> "Bearer", refresh_token |-> "new-prt"],
      [token_type |-> "Bearer", refresh_token |-> "new-prt",
       session_key_jwe |-> SessionKeyJwe(DeviceKey, SessionKey),
       tgt_cloud |-> JsonText([keyType |-> 0])],
      [token_type |-> "Bearer", refresh_token |-> "new-prt",
       session_key_jwe |-> SessionKeyJwe(DeviceKey, SessionKey),
       tgt_ad |-> JsonText([keyType |-> 18,
                            clientKey |-> Jwe(CtxS, KBKDF(SessionKey, CtxS),
                                              "tgt-session-key")])] }

PrtResponses ==
    { [status |-> 200, json |-> r, text |-> JsonText(r)] : r \in PrtReplies }
    \cup { [status |-> 400, json |-> ErrorReply, text |-> JsonText(ErrorReply)] }

\* deviceauth.py 610-616: one Kerberos TGT of the reply
DecryptTgt(prtdata, tgt, uwk) ==
    IF ~HasKey(prtdata, tgt) THEN Return(prtdata)
    ELSE LET tgtdata == JsonLoads(prtdata[tgt]).val
         IN IF tgtdata.keyType = 0 THEN Return(prtdata)
            ELSE LET k == decrypt_auth_response(tgtdata.clientKey, uwk, FALSE)
                 IN IF k.kind = "raise" THEN k
                    ELSE Return(DictSet(prtdata, tgt \o "_sessionkey", Hex(k.val)))

\* DeviceAuthentication.request_token_with_devicecert_signed_payload after its
\* request was answered, deviceauth.py 598-618
request_token_with_devicecert_signed_payload_result(d, res) ==
    IF res.status # 200 THEN Raise("AuthenticationException", res.text)
    ELSE IF ~HasKey(res.json, "session_key_jwe") THEN Raise("KeyError", "session_key_jwe")
    ELSE LET uwk == decrypt_jwe_with_transport_key(d, res.json["session_key_jwe"])
         IN IF uwk.kind = "raise" THEN uwk
            ELSE LET p1 == DictSet(res.json, "session_key", Hex(uwk.val))
                     p2 == DecryptTgt(p1, "tgt_ad", uwk.val)
                 IN IF p2.kind = "raise" THEN p2
                    ELSE DecryptTgt(p2.val, "tgt_cloud", uwk.val)

BrokerClientId == "38aa3b87-a06d-4817-b275-7a316988d93b"

\* deviceauth.py 673 and 690: authlib.get_srv_challenge()['Nonce'] subscripts the
\* coroutine object; the TypeError comes before anything is sent
SubscriptCoroutine == Raise("TypeError", "'coroutine' object is not subscriptable")

\* DeviceAuthentication.get_prt_with_password
get_prt_with_password ==
    /\ pc = "idle"
    /\ EndDevice([op |-> "get_prt_with_password", grant_type |-> "password"],
                 <<>>, <<>>, <<>>, SubscriptCoroutine, dev)

\* DeviceAuthentication.aad_brokerplugin_prt_auth: line 746 subscripts the
\* coroutine as well, before the client is resolved and the payload is built
aad_brokerplugin_prt_auth ==
    /\ pc = "idle"
    /\ \E client_id \in {ClientId, BrokerClientId}, renew_prt \in BOOLEAN,
          redirect_uri \in {None, "https://x/y"} :
          EndDevice([op |-> "aad_brokerplugin_prt_auth", client_id |-> client_id,
                     resource |-> ResourceUri, renew_prt |-> renew_prt,
                     redirect_uri |-> redirect_uri],
                    <<>>, <<>>, <<>>, SubscriptCoroutine, dev)

\* DeviceAuthentication.renew_prt: deviceauth.py 722 subscripts the coroutine of
\* get_srv_challenge before it is awaited
renew_prt ==
    /\ pc = "idle"
    /\ EndDevice([op |-> "renew_prt", grant_type |-> "refresh_token"],
                 <<>>, <<>>, <<>>, SubscriptCoroutine, dev)

SamlBearer == "urn:ietf:params:oauth:grant-type:saml1_1-bearer"

\* DeviceAuthentication.get_prt_with_samltoken
get_prt_with_samltoken ==
    /\ pc = "idle"
    /\ EndDevice([op |-> "get_prt_with_samltoken", grant_type |-> SamlBearer],
                 <<>>, <<>>, <<>>, SubscriptCoroutine, dev)

\* deviceauth.py 708-717
RefreshPrtPayload(challenge, refresh_token) ==
    [client_id |-> "29d9ed98-a469-4536-ade2-f981bc1d605e",
     request_nonce |-> challenge, scope |-> "openid aza ugs",
     win_ver |-> "10.0.19041.868", grant_type |-> "refresh_token",
     refresh_token |-> refresh_token]

\* DeviceAuthentication.get_prt_with_refresh_token: the challenge is requested
get_prt_with_refresh_token ==
    /\ pc = "idle"
    /\ Suspend([op |-> "get_prt_with_refresh_token", grant_type |-> "refresh_token"],
               [refresh_token |-> RefreshToken], <<FreshAuthReq(SrvChallengeReq)>>, <<>>,
               <<>>,
               "prt_challenge", tokendata)

\* deviceauth.py 706-718 and 580-597: the challenge arrives, the payload is
\* signed with the device key and posted
PrtChallenge ==
    /\ pc = "prt_challenge"
    /\ \E resp \in ChallengeResponses :
          LET rs == Append(resps, resp)
              payload == RefreshPrtPayload(resp.json["Nonce"], frame.refresh_token)
          IN IF ~HasKey(resp.json, "Nonce")
             THEN EndDevice(call, log, rs, printed, Raise("KeyError", "Nonce"), dev)
             ELSE IF dev.certificate = None
             THEN EndDevice(call, log, rs, printed,
                            Raise("AttributeError", "public_bytes"), dev)
             ELSE Suspend(call, frame, Append(log, DeviceSignedReq(dev, payload)),
                          rs, printed, "prt_request", pre)

\* deviceauth.py 597-618: the token endpoint answers the device-signed request
PrtRequest ==
    /\ pc = "prt_request"
    /\ \E res \in PrtResponses :
          EndDevice(call, log, Append(resps, res), printed,
                    request_token_with_devicecert_signed_payload_result(dev, res), dev)

\* payloads handed to request_token_with_sessionkey_signed_payload
SessionKeyPayloads ==
    { [client_id |-> BrokerClientId, request_nonce |-> "srv-nonce-1",
       scope |-> "openid aza ugs", iss |-> "aad:brokerplugin",
       grant_type |-> "refresh_token", refresh_token |-> Prt] }

\* deviceauth.py 638-660: the request signed with a key derived from the
\* session key
SessionKeySignedReq(d, payload, reqtgt) ==
    LET headers == [ctx |-> B64(RandomContext), kdf_ver |-> 2]
        jwtbody == JsonText(payload)
        derived_key == calculate_derived_key_v2(d.session_key, RandomContext, jwtbody)[2]
        data == [windows_api_version |-> "2.2", grant_type |-> JwtBearer,
                 request |-> jwt_encode(payload, derived_key, headers),
                 client_info |-> "1"]
    IN Req("POST", LoginHost \o "common", PathTokenV1,
           IF reqtgt THEN DictSet(data, "tgt", TRUE) ELSE data)

OtherPrt == "0.BBBB.prt2"

\* a PRT without "." whose base64 decoding is not UTF-8
UndecodablePrt == "////"

\* a session key that is neither 44 characters of base64 nor hexadecimal
BadHex == [nothex |-> "zz"]

\* binascii.unhexlify accepts h
HexDecodable(h) == h = NoHex \/ HasKey(h, "hex")

SetprtArgs ==
    { [prt |-> Prt, sessionkey |-> Hex(SessionKey)],
      [prt |-> Prt, sessionkey |-> BadHex],
      [prt |-> UndecodablePrt, sessionkey |-> Hex(SessionKey)] }

\* deviceauth.py 145-146 and 158-159: self.prt is assigned, then self.session_key
StorePrt(d, prt, sessionkey) ==
    IF prt = UndecodablePrt
    THEN [result |-> Raise("UnicodeDecodeError", prt), dev |-> d]
    ELSE LET d1 == [d EXCEPT !.prt = ensure_plain_prt(prt)]
         IN IF ~HexDecodable(sessionkey)
            THEN [result |-> Raise("binascii.Error", "Non-hexadecimal digit found"),
                  dev |-> d1]
            ELSE [result |-> ReturnNone,
                  dev |-> [d1 EXCEPT !.session_key = ensure_binary_sessionkey(sessionkey)]]

\* DeviceAuthentication.setprt
setprt ==
    /\ pc = "idle"
    /\ \E a \in SetprtArgs :
          LET o == StorePrt(dev, a.prt, a.sessionkey)
          IN EndDevice([op |-> "setprt", args |-> a], <<>>, <<>>, <<>>, o.result, o.dev)

\* DeviceAuthentication.request_token_with_sessionkey_signed_payload: the request
request_token_with_sessionkey_signed_payload ==
    /\ pc = "idle"
    /\ \E payload \in SessionKeyPayloads, reqtgt \in BOOLEAN :
          LET c == [op |-> "request_token_with_sessionkey_signed_payload",
                    reqtgt |-> reqtgt]
          IN IF dev.session_key = None
             THEN \* the key derivation is given None as key material
                  EndDevice(c, <<>>, <<>>, <<>>, Raise("TypeError", "key_material"), dev)
             ELSE Suspend(c, EmptyDict, <<SessionKeySignedReq(dev, payload, reqtgt)>>,
                          <<>>, <<>>, "sk_request", tokendata)

\* deviceauth.py 663-668: res.text is a str, and res.text() calls it; this
\* comes before the status is looked at
SessionKeyRequest ==
    /\ pc = "sk_request"
    /\ \E res \in TokenResponses :
          EndDevice(call, log, Append(resps, res), printed,
                    Raise("TypeError", "'str' object is not callable"), dev)

-----------------------------------------------------------------------------
(* Bulk enrollment token *)

BulkHost == "https://login.microsoftonline.com/webapp/bulkaadjtoken"

EnrollmentClientId == "b90d5b8f-5503-4153-b545-b31cecfaece2"

FlowToken == "flow-1"

ID2 == Jwt([tid |-> "tenant-1", appid |-> "other-app"])

\* auth.py 468-477
BulkBeginReq(access_token) ==
    [method |-> "POST", base |-> BulkHost, path |-> "/begin", transport |-> httptransport,
     data |-> [pid |-> "uuid4", name |-> "bulktoken", exp |-> Strftime(90)],
     headers |-> [Authorization |-> <<"Bearer", access_token>>]]

\* auth.py 494
BulkPollReq(access_token, flowtoken) ==
    [method |-> "GET", base |-> BulkHost, path |-> "/poll", transport |-> httptransport,
     data |-> [flowtoken |-> flowtoken],
     headers |-> [Authorization |-> <<"Bearer", access_token>>]]

\* resultData of a completed enrollment
BulkResults ==
    { [token_type |-> "Bearer", expires_in |-> 1, id_token |-> ID1],
      [token_type |-> "Bearer", expires_in |-> 1, id_token |-> ID2,
       refresh_token |-> "R2"],
      [token_type |-> "Bearer", expires_in |-> 1] }

BulkError == "enrollment is disabled"

\* JSON bodies of the begin endpoint
BulkBeginData ==
    { [state |-> "Pending", flowToken |-> FlowToken],
      [state |-> "Pending"],
      [state |-> "CompleteError", resultData |-> BulkError],
      [message |-> "unauthorized"] }

\* JSON bodies of the poll endpoint that end the polling
BulkFinalData ==
    { [state |-> "CompleteSuccess", resultData |-> JsonText(r)] : r \in BulkResults }
    \cup { [state |-> "CompleteError", resultData |-> BulkError],
           [message |-> "unauthorized"] }

\* JSON bodies of the poll endpoint while the token is being made
BulkPendingData == { [state |-> "Pending"], [state |-> "InProgress"] }

\* data.get(key)
DictGet(d, k) == IF HasKey(d, k) THEN d[k] ELSE None

\* the poll loop converting the result without the enrollment client id
BulkPollOutcome_NoClientId(data, now) ==
    LET state == DictGet(data, "state")
    IN IF ~Truthy(state)
       THEN [stop |-> TRUE, result |-> ReturnFalse, td |-> tokendata,
             printed |-> <<<<"No state returned. Server said", data>>>>]
       ELSE IF state = "CompleteError"
       THEN [stop |-> TRUE, result |-> ReturnFalse, td |-> tokendata,
             printed |-> <<<<"Error occurred", data["resultData"]>>>>]
       ELSE IF state = "CompleteSuccess"
       THEN LET tokenresult == JsonLoads(data["resultData"]).val
                r == IF ~HasKey(tokenresult, "id_token") THEN Raise("KeyError", "id_token")
                     ELSE tokenreply_to_tokendata(
                              DictSet(tokenresult, "access_token", tokenresult["id_token"]),
                              None, now)
            IN [stop |-> TRUE, result |-> r, printed |-> <<>>,
                td |-> IF r.kind = "return" THEN r.val ELSE tokendata]
       ELSE [stop |-> FALSE, result |-> NoResult, td |-> tokendata, printed |-> <<>>]

\* auth.py 495-507: what one poll response makes of the call; stop tells whether
\* the loop is left
BulkPollOutcome(data, now) ==
    LET state == DictGet(data, "state")
    IN IF ~Truthy(state)
       THEN [stop |-> TRUE, result |-> ReturnFalse, td |-> tokendata,
             printed |-> <<<<"No state returned. Server said", data>>>>]
       ELSE IF state = "CompleteError"
       THEN [stop |-> TRUE, result |-> ReturnFalse, td |-> tokendata,
             printed |-> <<<<"Error occurred", data["resultData"]>>>>]
       ELSE IF state = "CompleteSuccess"
       THEN LET tokenresult == JsonLoads(data["resultData"]).val
                r == IF ~HasKey(tokenresult, "id_token") THEN Raise("KeyError", "id_token")
                     ELSE tokenreply_to_tokendata(
                              DictSet(tokenresult, "access_token", tokenresult["id_token"]),
                              EnrollmentClientId, now)
            IN [stop |-> TRUE, result |-> r, printed |-> <<>>,
                td |-> IF r.kind = "return" THEN r.val ELSE tokendata]
       ELSE [stop |-> FALSE, result |-> NoResult, td |-> tokendata, printed |-> <<>>]

\* Authentication.get_bulk_enrollment_token: the begin request is posted
get_bulk_enrollment_token ==
    /\ pc = "idle"
    /\ Suspend([op |-> "get_bulk_enrollment_token"],
               [access_token |-> AT1, polls |-> 0],
               <<BulkBeginReq(AT1)>>, <<>>, <<>>, "bulk_begin", tokendata)

\* auth.py 478-494: the begin response; with a flow token the first poll is sent
BulkBegin ==
    /\ pc = "bulk_begin"
    /\ ~cancel.requested
    /\ \E data \in BulkBeginData :
          LET rs == Append(resps, [status |-> 200, json |-> data])
              state == DictGet(data, "state")
              flowtoken == DictGet(data, "flowToken")
          IN IF ~Truthy(state)
             THEN End(call, log, rs, <<<<"No state returned. Server said", data>>>>,
                      ReturnFalse, tokendata, pre)
             ELSE IF state = "CompleteError"
             THEN End(call, log, rs, <<<<"Error occurred", data["resultData"]>>>>,
                      ReturnFalse, tokendata, pre)
             ELSE IF ~Truthy(flowtoken)
             THEN End(call, log, rs, <<<<"Error. No flow token found. Data", data>>>>,
                      ReturnFalse, tokendata, pre)
             ELSE Suspend(call, [frame EXCEPT !.polls = 1],
                          Append(log, BulkPollReq(frame.access_token, flowtoken)), rs,
                          <<"Got flow token, polling for token creation">>,
                          "bulk_poll", pre)

\* auth.py 494-508: a poll response; the server leaves the token pending at most
\* MaxPending times
BulkPoll ==
    /\ pc = "bulk_poll"
    /\ ~cancel.requested
    /\ \E data \in BulkFinalData \cup BulkPendingData, now \in Clock :
          LET o == BulkPollOutcome(data, now)
              rs == Append(resps, [status |-> 200, json |-> data])
          IN /\ data \in BulkPendingData => frame.polls <= MaxPending
             /\ IF o.stop
                THEN End(call, log, rs, printed \o o.printed, o.result, o.td, pre)
                ELSE Suspend(call, frame, log, rs, printed, "bulk_sleep", pre)

\* auth.py 508 and 494: time.sleep(1.0) returns and the next poll is sent
BulkSleep ==
    /\ pc = "bulk_sleep"
    /\ Suspend(call, [frame EXCEPT !.polls = @ + 1],
               Append(log, log[Len(log)]), resps, printed, "bulk_poll", pre)

-----------------------------------------------------------------------------
(* The token codec called on its own *)

\* the three tokens a reply may hold
TokenKeys == {"access_token", "refresh_token", "id_token"}

\* d without the keys outside ks
Restrict(d, ks) == [k \in DOMAIN d \cap ks |-> d[k]]

FullReplies ==
    { [token_type |-> "Bearer", expires_in |-> 1, access_token |-> AT1,
       refresh_token |-> "R1", id_token |-> ID1],
      [token_type |-> "Bearer", expires_on |-> 5, access_token |-> AT2,
       refresh_token |-> "R1", id_token |-> ID1] }

\* replies with token_type, an expiry and any subset of the three tokens, and a
\* reply without token_type
CodecReplies ==
    { Restrict(r, {"token_type", "expires_in", "expires_on"} \cup ks) :
        r \in FullReplies, ks \in SUBSET TokenKeys }
    \cup { [expires_in |-> 1, access_token |-> AT1] }

\* Authentication.tokenreply_to_tokendata called with a reply of the token
\* endpoint, or with the record the context holds
tokenreply_to_tokendata_call ==
    /\ pc = "idle"
    /\ \E tokenreply \in CodecReplies \cup ({tokendata} \ {EmptyDict}),
          client_id \in {None, EnrollmentClientId}, now \in Clock :
          Finish([op |-> "tokenreply_to_tokendata", tokenreply |-> tokenreply,
                  client_id |-> client_id],
                 Out(<<>>, <<>>, <<>>, tokenreply_to_tokendata(tokenreply, client_id, now),
                     tokendata))

\* the plaintext of the sample tokens
JwePlain == JsonText([token_type |-> "Bearer", refresh_token |-> "R1"])

\* tokens as the server makes them, for the session key SessionKey
JweIntact ==
    { Jwe(CtxS, KBKDF(SessionKey, CtxS), JwePlain),
      JweCbc(CtxS, KBKDF(SessionKey, CtxS), JwePlain, "hmac-1") }

\* the same tokens with another header segment that carries the same ctx
JweOtherHeader == { [t EXCEPT !.header = JweHeader(CtxS, "other")] : t \in JweIntact }

\* the same tokens with another authtag segment
JweOtherTag == { [t EXCEPT !.authtag = B64([hmac |-> "hmac-2"])] : t \in JweIntact }

\* Authentication.decrypt_auth_response called on its own
decrypt_auth_response_call ==
    /\ pc = "idle"
    /\ \E responsedata \in JweIntact \cup JweOtherHeader \cup JweOtherTag \cup {JwePlain},
          sessionkey \in {SessionKey, OtherSessionKey}, asjson \in BOOLEAN :
          Finish([op |-> "decrypt_auth_response", responsedata |-> responsedata,
                  sessionkey |-> sessionkey, asjson |-> asjson],
                 Out(<<>>, <<>>, <<>>,
                     decrypt_auth_response(responsedata, sessionkey, asjson), tokendata))

\* the caller cancels the task that runs get_bulk_enrollment_token
BulkCancel ==
    /\ pc \in {"bulk_begin", "bulk_poll", "bulk_sleep"}
    /\ ~cancel.requested
    /\ cancel' = CancelRequested(pc, Len(log))
    /\ UNCHANGED <<tenant, scope, tokendata, dev, pc, call, frame, pre, log, resps,
                   printed, result, httptransport, disk>>

\* the event loop throws CancelledError into the coroutine at the await it is
\* suspended at (auth.py 477, 494); time.sleep (auth.py 508) is no await, the
\* loop does not run while it blocks
BulkCancelled ==
    /\ pc \in {"bulk_begin", "bulk_poll"}
    /\ cancel.requested
    /\ End(call, log, resps, printed, Raise("CancelledError", None), tokendata, pre)

-----------------------------------------------------------------------------
(* Files *)

\* the files the working directory holds at the start: PRT files that are
\* complete, lack a field, hold a session key that is not hexadecimal, or are
\* not JSON
InitialDisk ==
    [f \in {"prt.json", "nokey.json", "noprt.json", "badkey.json", "broken.json"} |->
       CASE f = "prt.json" ->
              JsonText([refresh_token |-> OtherPrt, session_key |-> Hex(OtherSessionKey)])
         [] f = "nokey.json" -> JsonText([refresh_token |-> OtherPrt])
         [] f = "noprt.json" -> JsonText([session_key |-> Hex(OtherSessionKey)])
         [] f = "badkey.json" ->
              JsonText([refresh_token |-> OtherPrt, session_key |-> BadHex])
         [] OTHER -> PlainText("{broken")]

PrtFiles == DOMAIN InitialDisk \cup {"missing.json", None}

\* DeviceAuthentication.loadprt on device d with the files k
loadprt_run(d, k, prtfile) ==
    IF ~Truthy(prtfile) THEN [result |-> ReturnFalse, dev |-> d]
    ELSE IF ~HasKey(k, prtfile) THEN [result |-> ReturnFalse, dev |-> d]
    ELSE LET prtdata == JsonLoads(k[prtfile])
         IN IF prtdata.kind = "raise" THEN [result |-> prtdata, dev |-> d]
            ELSE IF ~HasKey(prtdata.val, "refresh_token")
            THEN [result |-> Raise("KeyError", "refresh_token"), dev |-> d]
            ELSE IF ~HasKey(prtdata.val, "session_key")
            THEN [result |-> Raise("KeyError", "session_key"),
                  dev |-> [d EXCEPT !.prt = ensure_plain_prt(prtdata.val["refresh_token"])]]
            ELSE LET o == StorePrt(d, prtdata.val["refresh_token"],
                                   prtdata.val["session_key"])
                 IN [result |-> IF o.result.kind = "raise" THEN o.result ELSE Return(TRUE),
                     dev |-> o.dev]

\* DeviceAuthentication.loadprt
loadprt ==
    /\ pc = "idle"
    /\ \E prtfile \in PrtFiles :
          LET o == loadprt_run(dev, disk, prtfile)
          IN EndDevice([op |-> "loadprt", prtfile |-> prtfile], <<>>, <<>>, <<>>,
                       o.result, o.dev)

-----------------------------------------------------------------------------
(* Device registration *)

\* an operation of the device object ends, leaving the files as k
EndDisk(c, l, rs, p, r, k) ==
    /\ call' = c
    /\ log' = l
    /\ resps' = rs
    /\ printed' = p
    /\ result' = r
    /\ pre' = tokendata
    /\ pc' = "done"
    /\ frame' = EmptyDict
    /\ disk' = k
    /\ UNCHANGED <<tenant, scope, tokendata, dev, httptransport, cancel>>

\* 'DESKTOP-' + ''.join(random.choices(...)), and rsa.generate_private_key(...)
RandomDeviceName == "DESKTOP-RANDOM00"

GeneratedKey == "generated-key"

\* device_name.lower()
LowerName(name) == IF name = RandomDeviceName THEN "desktop-random00" ELSE "pc1"

\* arguments of register_device: device_name, certout, privout, device_type
RegisterArgs ==
    { [device_name |-> None, certout |-> None, privout |-> None, device_type |-> None],
      [device_name |-> "PC1", certout |-> None, privout |-> None, device_type |-> None],
      [device_name |-> None, certout |-> "dev.pem", privout |-> "dev.key",
       device_type |-> "macos"] }

\* deviceauth.py 335-348: the defaults of the arguments
RegisterDefaults(a) ==
    LET device_name == IF Truthy(a.device_name) THEN a.device_name ELSE RandomDeviceName
    IN [device_name |-> device_name,
        certout |-> IF Truthy(a.certout) THEN a.certout
                    ELSE LowerName(device_name) \o ".pem",
        privout |-> IF Truthy(a.privout) THEN a.privout
                    ELSE LowerName(device_name) \o ".key",
        device_type |-> IF Truthy(a.device_type) THEN a.device_type ELSE "Windows"]

EnrollmentUrl == "https://enterpriseregistration.windows.net/EnrollmentServer/device/"

\* deviceauth.py 364-422: the enrollment request for key
RegisterReq(f, key, access_token) ==
    [method |-> "POST", base |-> EnrollmentUrl, path |-> "?api-version=2.0",
     transport |-> httptransport,
     headers |-> [Authorization |-> <<"Bearer", access_token>>],
     data |-> IF f.device_type = "macos"
              THEN [DeviceDisplayName |-> f.device_name,
                    CertificateRequest |-> [Type |-> "pkcs10", Data |-> B64([csr |-> key])],
                    OSVersion |-> "12.2.0", DeviceType |-> "MacOS",
                    TransportKey |-> B64([jwk |-> key]), JoinType |-> 0]
              ELSE [DeviceDisplayName |-> f.device_name,
                    CertificateRequest |-> [Type |-> "pkcs10", Data |-> B64([csr |-> key])],
                    OSVersion |-> "10.0.19041.928", DeviceType |-> f.device_type,
                    TransportKey |-> B64([cngblob |-> key]), JoinType |-> 0]]

\* answers of the enrollment server: a certificate, or an error body
RegisterResponses ==
    { [status |-> 200,
       json |-> [Certificate |-> [RawBody |-> B64([der |-> "issued-certificate"])]]],
      [status |-> 400,
       json |-> [code |-> "invalid_request", message |-> "device cap reached"]] }

\* DeviceAuthentication.register_device, deviceauth.py 330-422: the key is
\* generated and written to privout, then the enrollment request is posted
register_device ==
    /\ pc = "idle"
    /\ \E a \in RegisterArgs :
          LET f == RegisterDefaults(a)
          IN /\ call' = [op |-> "register_device", args |-> a, privout |-> f.privout,
                         certout |-> f.certout]
             /\ frame' = f
             /\ disk' = DictSet(disk, f.privout, Pem(GeneratedKey))
             /\ log' = <<RegisterReq(f, GeneratedKey, AT1)>>
             /\ resps' = <<>>
             /\ printed' = <<>>
             /\ result' = NoResult
             /\ pre' = tokendata
             /\ pc' = "register_post"
             /\ UNCHANGED <<tenant, scope, tokendata, dev, httptransport, cancel>>

\* deviceauth.py 423-436: the answer of the enrollment server
RegisterResponse ==
    /\ pc = "register_post"
    /\ \E res \in RegisterResponses :
          IF ~HasKey(res.json, "Certificate")
          THEN \* the response is printed to stdout
               EndDisk(call, log, Append(resps, res), printed, ReturnFalse, disk)
          ELSE EndDisk(call, log, Append(resps, res), printed, Return(TRUE),
                       DictSet(disk, frame.certout,
                               [pem |-> B64Decode(res.json["Certificate"]["RawBody"])]))

-----------------------------------------------------------------------------
Init ==
    /\ tenant \in Tenants
    /\ scope \in Scopes
    /\ tokendata = EmptyDict
    /\ dev = NewDevice
    /\ pc = "idle"
    /\ call = [op |-> "-"]
    /\ frame = EmptyDict
    /\ pre = EmptyDict
    /\ log = <<>>
    /\ resps = <<>>
    /\ printed = <<>>
    /\ result = ReturnNone
    /\ httptransport \in Transports
    /\ cancel = NoCancel
    /\ disk = InitialDisk

Next ==
    \/ authenticate_username_password_native
    \/ authenticate_username_password_native_v2
    \/ authenticate_with_refresh_native
    \/ authenticate_with_refresh_native_v2
    \/ authenticate_with_code_native
    \/ authenticate_with_code_native_v2
    \/ authenticate_with_code_encrypted
    \/ authenticate_with_saml_native
    \/ authenticate_with_saml_native_v2
    \/ authenticate_with_desktopsso_token
    \/ get_srv_challenge
    \/ get_prt_cookie_nonce
    \/ authenticate_with_prt_cookie
    \/ CookieNonce1
    \/ CookieNonce2
    \/ CookieAuthorizeResponse
    \/ authenticate_with_prt_v2
    \/ PrtV2Nonce
    \/ authenticate_with_prt
    \/ PrtNonce
    \/ get_tokens
    \/ loadcert
    \/ setprt
    \/ get_prt_with_password
    \/ get_prt_with_samltoken
    \/ get_prt_with_refresh_token
    \/ PrtChallenge
    \/ PrtRequest
    \/ request_token_with_sessionkey_signed_payload
    \/ SessionKeyRequest
    \/ get_bulk_enrollment_token
    \/ BulkBegin
    \/ BulkPoll
    \/ BulkSleep
    \/ aad_brokerplugin_prt_auth
    \/ renew_prt
    \/ build_auth_url_call
    \/ decrypt_auth_response_call
    \/ tokenreply_to_tokendata_call
    \/ create_prt_cookie_kdf_ver_2_call
    \/ Returned

Spec == Init /\ [][Next]_vars

\* the operations of the DeviceAuthentication object, loadkey among them
DeviceNext ==
    \/ loadcert
    \/ loadprt
    \/ loadkey
    \/ register_device
    \/ RegisterResponse
    \/ setprt
    \/ get_prt_with_password
    \/ get_prt_with_samltoken
    \/ get_prt_with_refresh_token
    \/ PrtChallenge
    \/ PrtRequest
    \/ request_token_with_sessionkey_signed_payload
    \/ SessionKeyRequest
    \/ aad_brokerplugin_prt_auth
    \/ renew_prt
    \/ Returned

DeviceSpec == Init /\ [][DeviceNext]_vars

\* the event loop resumes a coroutine whose await has completed, and
\* time.sleep returns
LiveSpec == Spec /\ WF_vars(BulkPoll) /\ WF_vars(BulkSleep)

\* the operations with a caller that may cancel the bulk enrollment task
CancelNext == Next \/ BulkCancel \/ BulkCancelled

CancelSpec == Init /\ [][CancelNext]_vars

-----------------------------------------------------------------------------
(* Properties *)

TokenPaths == {PathTokenV1, PathTokenV2}

IsV1(path) == path \in {PathTokenV1, PathAuthorizeV1, "/oauth2/authorize/"}

IsV2(path) == path \in {PathTokenV2, PathAuthorizeV2}

\* the request sent last and its response
LastReq == log[Len(log)]

LastResp == resps[Len(resps)]

\* the last request was the cookie-carrying authorize request and was answered
AuthorizeAnswered ==
    /\ Len(log) >= 1
    /\ Len(resps) = Len(log)
    /\ HasKey(LastReq, "cookies")

GrantOps ==
    { "authenticate_username_password_native", "authenticate_username_password_native_v2",
      "authenticate_with_refresh_native", "authenticate_with_refresh_native_v2",
      "authenticate_with_code_native", "authenticate_with_code_native_v2",
      "authenticate_with_code_encrypted",
      "authenticate_with_saml_native", "authenticate_with_saml_native_v2",
      "authenticate_with_desktopsso_token" }

\* additionaldata overrides neither resource nor scope
NoOverride ==
    HasKey(call, "additionaldata") =>
        (~HasKey(call.additionaldata, "scope") /\ ~HasKey(call.additionaldata, "resource"))

\* C1: whenever an operation has posted to a /oauth2/token or /oauth2/v2.0/token
\* endpoint and the response had a status other than 200, the operation ends by
\* raising AuthenticationException (get_tokens, which catches it, aside).
C1_Non200Raises ==
    (pc = "done" /\ call.op # "get_tokens") =>
        \A i \in 1..Len(resps) :
            (/\ i <= Len(log)
             /\ log[i].method = "POST"
             /\ log[i].path \in TokenPaths
             /\ resps[i].status # 200)
            => (result.kind = "raise" /\ result.exc = "AuthenticationException")

C3_ResourceXorScope ==
    (call.op \in GrantOps /\ NoOverride) =>
        \A i \in 1..Len(log) :
            /\ log[i].path = PathTokenV1 =>
                  (HasKey(log[i].data, "resource") /\ ~HasKey(log[i].data, "scope"))
            /\ log[i].path = PathTokenV2 =>
                  (HasKey(log[i].data, "scope") /\ ~HasKey(log[i].data, "resource"))

\* C3, amended: with no additionaldata override a grant flow's request to the v1
\* token endpoint carries resource, except the encrypted-code flow's, which
\* carries neither resource nor scope; it carries no scope, except the v1
\* password flow's when the context's scope is set, which carries that scope
\* too; a request to the v2 token endpoint carries scope and no resource.
C3_ResourceAndScopeByFlow ==
    (call.op \in GrantOps /\ NoOverride) =>
        \A i \in 1..Len(log) :
            /\ log[i].path \in TokenPaths
            /\ log[i].path = PathTokenV1 =>
                  /\ HasKey(log[i].data, "resource")
                        <=> (call.op # "authenticate_with_code_encrypted")
                  /\ HasKey(log[i].data, "scope")
                        <=> (call.op = "authenticate_username_password_native"
                             /\ Truthy(scope))
                  /\ HasKey(log[i].data, "scope") => log[i].data["scope"] = scope
            /\ log[i].path = PathTokenV2 =>
                  (HasKey(log[i].data, "scope") /\ ~HasKey(log[i].data, "resource"))

C3_Witness ==
    /\ pc = "done"
    /\ call.op = "authenticate_username_password_native"
    /\ NoOverride
    /\ Truthy(scope)
    /\ Len(log) = 1
    /\ log[1].path = PathTokenV1
    /\ HasKey(log[1].data, "scope")
    /\ HasKey(log[1].data, "resource")

\* C4, as claimed: every request sent on behalf of get_tokens targets a v2.0
\* endpoint when the context's scope is set and a v1 endpoint when it is not.
C4_EndpointFollowsScope ==
    call.op = "get_tokens" =>
        \A i \in 1..Len(log) :
            IF Truthy(scope) THEN IsV2(log[i].path) ELSE IsV1(log[i].path)

\* C4, amended: on behalf of get_tokens the nonce fetch always goes to the v1
\* authorize endpoint under Common, with a resource parameter, whether a scope is
\* set or not; every other request (the token requests and the authorize request
\* that carries the cookie) targets v2.0 when the scope is set and v1 when not.
C4_EndpointFollowsScopeButNonce ==
    call.op = "get_tokens" =>
        \A i \in 1..Len(log) :
            IF log[i] = GetNonceReq
            THEN /\ log[i].path = "/oauth2/authorize/"
                 /\ log[i].base = LoginHost \o "Common"
                 /\ HasKey(log[i].data, "resource")
            ELSE IF Truthy(scope) THEN IsV2(log[i].path) ELSE IsV1(log[i].path)

C4_Witness ==
    /\ call.op = "get_tokens"
    /\ Truthy(scope)
    /\ Len(log) >= 2
    /\ log[1] = GetNonceReq
    /\ LastReq.path = PathAuthorizeV2
    /\ pc = "done"

\* C5: when authenticate_with_prt_cookie (return_code false) got a 302 whose
\* Location starts with the redirect_uri and carries a code, it has posted the
\* redemption of exactly that code to a token endpoint, it returns the token
\* record, and that record is the context's tokendata.
C5_CookieRedeemsCode ==
    (/\ pc = "done"
     /\ call.op = "authenticate_with_prt_cookie"
     /\ ~call.args.return_code
     /\ AuthorizeAnswered
     /\ LastResp.status = 302
     /\ StartsWith(LastResp.location, LastReq.data["redirect_uri"])
     /\ HasKey(parse_qs(UrlQuery(LastResp.location)), "code"))
    => (/\ \E i \in 1..Len(log) :
              /\ log[i].method = "POST"
              /\ log[i].path \in TokenPaths
              /\ HasKey(log[i].data, "code")
              /\ log[i].data["code"] = parse_qs(UrlQuery(LastResp.location))["code"][1]
        /\ result.kind = "return"
        /\ tokendata = result.val)

\* the nonce get_prt_cookie_nonce makes of the i-th response
NonceFrom(i) == NonceOf(get_prt_cookie_nonce_result(resps[i]).result)

\* C6: in authenticate_with_prt_v2 and authenticate_with_prt no authorize request
\* is sent before a nonce fetch was answered with a nonce, no code-redemption POST
\* is sent before an authorize response delivered a code, and when the nonce
\* fetch yields no nonce the flow returns False having sent nothing further.
C6_PrtStepsInOrder ==
    call.op \in {"authenticate_with_prt_v2", "authenticate_with_prt"} =>
        /\ \A i \in 1..Len(log) :
              HasKey(log[i], "cookies") =>
                  \E j \in 1..(i - 1) :
                      /\ log[j] = GetNonceReq
                      /\ j <= Len(resps)
                      /\ Truthy(NonceFrom(j))
        /\ \A i \in 1..Len(log) :
              log[i].method = "POST" =>
                  \E j \in 1..(i - 1) :
                      /\ HasKey(log[j], "cookies")
                      /\ j <= Len(resps)
                      /\ HasKey(parse_qs(UrlQuery(resps[j].location)), "code")
        /\ (pc = "done" /\ Len(resps) >= 1 /\ ~Truthy(NonceFrom(1))) =>
              (result.kind = "false" /\ Len(log) = 1)

\* C7: authenticate_with_prt_cookie takes an authorize response as carrying the
\* code (it returns the code or hands it to the redemption) only when the status
\* is 302 and the Location begins with the requested redirect_uri.
C7_SuccessOnlyOnRedirectPrefix ==
    (/\ pc = "done"
     /\ AuthorizeAnswered
     /\ result.kind \in {"return", "coroutine"})
    => (/\ LastResp.status = 302
        /\ StartsWith(Lower(LastResp.location), Lower(LastReq.data["redirect_uri"])))

\* C8: each PRT acquisition variant first posts the srv_challenge request and,
\* given the Nonce and a loaded device certificate, then posts one device-signed
\* request whose request_nonce is that Nonce and whose grant_type is that of the
\* credential.
C8_PrtAcquisitionByChallenge ==
    (/\ pc = "done"
     /\ call.op \in {"get_prt_with_password", "get_prt_with_samltoken",
                     "get_prt_with_refresh_token"})
    => (/\ Len(log) >= 1
        /\ log[1] = FreshAuthReq(SrvChallengeReq)
        /\ (HasKey(resps[1].json, "Nonce") /\ dev.certificate # None) => Len(log) = 2
        /\ Len(log) >= 2 =>
              /\ log[2].data["grant_type"] = JwtBearer
              /\ jwt_decode_unverified(log[2].data["request"])["request_nonce"]
                    = resps[1].json["Nonce"]
              /\ jwt_decode_unverified(log[2].data["request"])["grant_type"]
                    = call.grant_type)

\* a poll response that ends the polling
BulkFinal(data) ==
    ~Truthy(DictGet(data, "state"))
    \/ DictGet(data, "state") \in {"CompleteSuccess", "CompleteError"}

C9_BulkSafe ==
    call.op = "get_bulk_enrollment_token" =>
        /\ \A i \in 2..Len(resps) :
              (i < Len(resps) \/ pc \in {"bulk_poll", "bulk_sleep"})
                  => ~BulkFinal(resps[i].json)
        /\ (pc = "done" /\ Len(resps) >= 2) =>
              /\ BulkFinal(LastResp.json)
              /\ Len(log) = Len(resps)
              /\ \A i \in 2..Len(log) : log[i] = BulkPollReq(AT1, resps[1].json["flowToken"])
        /\ (/\ pc = "done"
            /\ Len(resps) >= 2
            /\ DictGet(LastResp.json, "state") = "CompleteSuccess"
            /\ HasKey(JsonLoads(LastResp.json["resultData"]).val, "id_token")) =>
              /\ result.kind = "return"
              /\ tokendata = result.val
              /\ DictGet(result.val, "accessToken")
                    = JsonLoads(LastResp.json["resultData"]).val["id_token"]
              /\ DictGet(result.val, "_clientId") = EnrollmentClientId

C10_CompleteErrorRaises ==
    (/\ pc = "done"
     /\ call.op = "get_bulk_enrollment_token"
     /\ Len(resps) >= 1
     /\ DictGet(LastResp.json, "state") = "CompleteError")
    => (/\ result.kind = "raise"
        /\ result.exc \in {"AuthenticationError", "AuthenticationException"}
        /\ result.val = LastResp.json["resultData"]
        /\ tokendata = pre)

\* C11: a cancellation requested while get_bulk_enrollment_token is in its wait
\* between two polls takes effect in that wait: no poll request is sent after it.
C11_CancelAbortsSleep ==
    (cancel.requested /\ cancel.at = "bulk_sleep") => Len(log) = cancel.sent

\* the keys of a normalized record that hold the tokens and their type
NormalizedKeys == {"tokenType", "accessToken", "refreshToken", "idToken"}

\* C12: tokenreply_to_tokendata applied to a record it produced returns a record
\* with the same tokenType, accessToken, refreshToken and idToken.
C12_CodecIdempotent ==
    (/\ pc = "done"
     /\ call.op = "tokenreply_to_tokendata"
     /\ HasKey(call.tokenreply, "tokenType")
     /\ HasKey(call.tokenreply, "expiresOn"))
    => (/\ result.kind = "return"
        /\ Restrict(result.val, NormalizedKeys)
              = Restrict(call.tokenreply, NormalizedKeys))

\* the claims in the access token of a reply
AccessTokenClaims(tokenreply) == JsonLoads(B64Decode(tokenreply["access_token"][2])).val

\* C13: for a reply with token_type, an expiry and any subset of access_token,
\* refresh_token and id_token, tokenreply_to_tokendata returns a record that
\* holds exactly the tokens of the reply, and tenantId / _clientId only as far
\* as the access token has tid / appid.
C13_CodecAnySubset ==
    (/\ pc = "done"
     /\ call.op = "tokenreply_to_tokendata"
     /\ HasKey(call.tokenreply, "token_type")
     /\ (HasKey(call.tokenreply, "expires_on") \/ HasKey(call.tokenreply, "expires_in")))
    => (/\ result.kind = "return"
        /\ DictGet(result.val, "tokenType") = call.tokenreply["token_type"]
        /\ HasKey(result.val, "expiresOn")
        /\ HasKey(result.val, "accessToken") <=> HasKey(call.tokenreply, "access_token")
        /\ HasKey(result.val, "refreshToken") <=> HasKey(call.tokenreply, "refresh_token")
        /\ HasKey(result.val, "idToken") <=> HasKey(call.tokenreply, "id_token")
        /\ HasKey(call.tokenreply, "access_token") =>
              /\ result.val["accessToken"] = call.tokenreply["access_token"]
              /\ HasKey(result.val, "tenantId")
                    <=> HasKey(AccessTokenClaims(call.tokenreply), "tid")
        /\ HasKey(call.tokenreply, "refresh_token") =>
              result.val["refreshToken"] = call.tokenreply["refresh_token"]
        /\ HasKey(call.tokenreply, "id_token") =>
              result.val["idToken"] = call.tokenreply["id_token"])

\* C14: the cookie create_prt_cookie_kdf_ver_2 returns is signed with
\* KDFv1(sessionkey, SHA256(context || body)), context being the value in the
\* cookie's ctx header and body the decoded middle segment of that cookie.
C14_CookieKeyFromOwnBody ==
    (pc = "done" /\ call.op = "create_prt_cookie_kdf_ver_2")
    => (/\ result.kind = "return"
        /\ result.val.sigkey
              = calculate_derived_key(call.sessionkey,
                                      Sha256(<<B64Decode(result.val.headers.ctx),
                                               B64Decode(result.val.body)>>))[2])

\* C15: every request of an object constructed with an injected transport is
\* sent through that transport.
C15_InjectedTransportOnly ==
    httptransport = InjectedTransport
    => \A i \in 1..Len(log) : log[i].transport = InjectedTransport

\* C16: when the flow get_tokens invoked raises AuthenticationException (the
\* token endpoint answered with a status other than 200), get_tokens prints the
\* error, with the server's error_description when the message is JSON, to the
\* sink and exits with status 1.
C16_GetTokensReportsAndExits ==
    (/\ pc = "done"
     /\ call.op = "get_tokens"
     /\ Len(log) = 1
     /\ log[1].path \in TokenPaths
     /\ resps[1].status # 200)
    => (/\ result.kind = "raise"
        /\ result.exc = "SystemExit"
        /\ result.val = 1
        /\ printed # <<>>
        /\ printed[Len(printed)] = <<"Error during authentication",
                                     resps[1].json["error_description"]>>)

\* C17: aad_brokerplugin_prt_auth sends a signed request whose payload has the
\* stored PRT as refresh_token, the scope 'openid aza' exactly when renew_prt is
\* true and 'openid' otherwise, and, when no redirect_uri is passed, the
\* redirect_uri ms-appx-web://Microsoft.AAD.BrokerPlugin/<client_id>.
C17_BrokerPluginPayload ==
    (pc = "done" /\ call.op = "aad_brokerplugin_prt_auth")
    => (/\ Len(log) >= 1
        /\ LET payload == jwt_decode_unverified(LastReq.data["request"])
           IN /\ payload["refresh_token"] = dev.prt
              /\ payload["scope"] = (IF call.renew_prt THEN "openid aza" ELSE "openid")
              /\ call.redirect_uri = None =>
                    payload["redirect_uri"]
                       = "ms-appx-web://Microsoft.AAD.BrokerPlugin/" \o call.client_id)

UnquoteChar(c) ==
    CASE c = "+" -> " "
      [] c = "%3A" -> ":"
      [] c = "%2F" -> "/"
      [] c = "%3F" -> "?"
      [] c = "%26" -> "&"
      [] c = "%3D" -> "="
      [] c = "%2B" -> "+"
      [] OTHER -> c

\* urllib.parse.unquote_plus, what the receiver of a URL applies to a value
unquote_plus(chars) == [i \in DOMAIN chars |-> UnquoteChar(chars[i])]

\* the pieces of s between the occurrences of d
RECURSIVE SplitOn(_, _)
SplitOn(s, d) ==
    IF Find(s, d) = 0 THEN <<s>>
    ELSE <<SubSeq(s, 1, Find(s, d) - 1)>> \o SplitOn(SubSeq(s, Find(s, d) + 1, Len(s)), d)

\* the name = value parts of the query of url, as written in url
QueryParts(url) == SplitOn(UrlQuery(url), "&")

\* the parameters url carries, in order, as the receiver reads them
QueryPairs(url) ==
    [i \in DOMAIN QueryParts(url) |->
        <<QueryParts(url)[i][1],
          unquote_plus(SubSeq(QueryParts(url)[i], 3, Len(QueryParts(url)[i])))>>]

\* C18: build_auth_url returns the v2 authorize URL exactly when a scope is
\* passed and the v1 URL with the context's resource otherwise; the tenant
\* segment is 'common' when the context has no tenant; the parameters are
\* response_type, client_id, scope or resource, redirect_uri and state, in this
\* order and URL-encoded; the state is the caller's, or a UUID when none is
\* passed.
C18_AuthUrl ==
    (pc = "done" /\ call.op = "build_auth_url")
    => (/\ result.kind = "return"
        /\ LET url == result.val
               v2 == StrTruthy(call.scope)
           IN /\ Find(url, "?") = 4
              /\ url[1] = "https://login.microsoftonline.com/"
              /\ url[2] = (IF tenant = None THEN "common" ELSE tenant)
              /\ url[3] = (IF v2 THEN "/oauth2/v2.0/authorize" ELSE "/oauth2/authorize")
              /\ QueryPairs(url)
                    = << <<"response_type", call.response_type.chars>>,
                         <<"client_id", <<ClientId>> >>,
                         IF v2 THEN <<"scope", call.scope.chars>>
                         ELSE <<"resource", Chars(ResourceUri)>>,
                         <<"redirect_uri", call.redirurl.chars>>,
                         <<"state", IF StrTruthy(call.state) THEN call.state.chars
                                    ELSE <<"uuid4">> >> >>
              /\ \A i \in DOMAIN QueryParts(url) :
                    /\ QueryParts(url)[i][2] = "="
                    /\ \A j \in 3..Len(QueryParts(url)[i]) :
                          QueryParts(url)[i][j] \notin ReservedChars \ {"+"})

C18_Witness ==
    /\ pc = "done"
    /\ call.op = "build_auth_url"
    /\ StrTruthy(call.scope)
    /\ call.state = Str(<<"a", "+", "b", "&", "c">>)
    /\ Find(call.redirurl.chars, "&") # 0
    /\ tenant = None
    /\ Find(result.val, "%26") # 0

C20_TransportOnlyLoad ==
    [][(/\ pc = "idle"
        /\ pc' = "done"
        /\ call'.op = "loadkey"
        /\ call'.args.transport_only
        /\ (Truthy(call'.args.privkeyfile) \/ Truthy(call'.args.pfxfile)))
       => (/\ result' = Return(TRUE)
           /\ dev'.transportprivkey = TransportKeyFile.key
           /\ dev'.transportkeydata = Pem(dev'.transportprivkey)
           /\ dev'.privkey = dev.privkey
           /\ dev'.keydata = dev.keydata
           /\ dev'.certificate = dev.certificate)]_vars

\* C21: register_device writes the generated key to privout before it posts the
\* enrollment request; when the answer has no Certificate field it raises an
\* error that carries the answer, writes no file, and the key file stays.
C21_RegisterKeyThenRaise ==
    [][/\ (pc = "idle" /\ pc' = "register_post")
          => (HasKey(disk', call'.privout) /\ Len(log') = 1)
       /\ (pc = "register_post" /\ pc' = "done"
           /\ ~HasKey(resps'[1].json, "Certificate"))
          => (/\ result'.kind = "raise"
              /\ result'.val = resps'[1].json
              /\ disk' = disk
              /\ HasKey(disk', call'.privout))]_vars

\* the plaintext decrypt_auth_response is to return for the call: parsed or not
ExpectedPlain == IF call.asjson THEN Return(JwePlain.json) ELSE Return(JwePlain)

\* C22: decrypt_auth_response takes a token for AES-GCM exactly when its IV has
\* 12 bytes: such a token decrypts under the right session key unless its header
\* or its tag was changed, and then it raises; any other token is decrypted
\* with AES-CBC, and what is returned does not depend on its tag.
C22_GcmByIvLength ==
    (/\ pc = "done"
     /\ call.op = "decrypt_auth_response"
     /\ HasKey(call.responsedata, "header"))
    => LET rd == call.responsedata
           rightkey == call.sessionkey = SessionKey
       IN IF B64Decode(rd.iv).len = 12
          THEN /\ (rd \in JweIntact /\ rightkey) => result = ExpectedPlain
               /\ (rd \in JweOtherHeader \cup JweOtherTag \/ ~rightkey)
                     => result.kind = "raise"
          ELSE /\ rightkey => result = ExpectedPlain
               /\ ~rightkey => result.kind = "raise"
               /\ \A t \in {"hmac-1", "hmac-2", "hmac-3"} :
                     LET other == decrypt_auth_response([rd EXCEPT !.authtag = B64([hmac |-> t])],
                                                        call.sessionkey, call.asjson)
                     IN /\ other.kind = result.kind
                        /\ result.kind = "return" => other = result

C22_Witness ==
    /\ pc = "done"
    /\ call.op = "decrypt_auth_response"
    /\ call.responsedata \in JweOtherTag
    /\ B64Decode(call.responsedata.iv).len = 16
    /\ call.sessionkey = SessionKey
    /\ result = ExpectedPlain

\* responsedata is a JWE whose content is encrypted under the key derived from
\* sessionkey and the context of its header
EncryptedUnder(responsedata, sessionkey) ==
    /\ HasKey(responsedata, "header")
    /\ LET ctx == B64Decode(JsonLoads(B64Decode(responsedata.header)).val["ctx"])
           data == B64Decode(responsedata.data)
           key == KBKDF(sessionkey, ctx)
       IN \/ HasKey(data, "gcm_key") /\ data.gcm_key = key
          \/ HasKey(data, "cbc_key") /\ data.cbc_key = key

PresentMessages(jdata) ==
    (IF HasKey(jdata, "strMainMessage")
     THEN <<<<"Error from STS", jdata["strMainMessage"]>>>> ELSE <<>>)
    \o (IF HasKey(jdata, "strAdditionalMessage")
        THEN <<<<"Additional info", jdata["strAdditionalMessage"]>>>> ELSE <<>>)
    \o (IF HasKey(jdata, "strServiceExceptionMessage")
        THEN <<<<"Exception", jdata["strServiceExceptionMessage"]>>>> ELSE <<>>)

GenericNoCode ==
    <<"No authentication code was returned, make sure the PRT cookie is valid",
      "It is also possible that the sign-in was blocked by Conditional Access policies">>

\* C24: when the authorize response carries no code and its body holds a
\* $Config JSON, authenticate_with_prt_cookie prints each of strMainMessage,
\* strAdditionalMessage and strServiceExceptionMessage that is present, whether
\* or not the other two are; when the JSON does not parse it prints only the
\* generic message; in both cases it returns False.
C24_EachMessageSurfaced ==
    [][(/\ pc = "cookie_authorize"
        /\ pc' = "done"
        /\ resps'[Len(resps')].status = 200
        /\ Find(resps'[Len(resps')].body, PlainText("$Config=")) # 0)
       => LET jdata == JsonLoadsBytes(ConfigSlice(resps'[Len(resps')].body))
              new == SubSeq(printed', Len(printed) + 1, Len(printed'))
              expected == IF jdata.kind = "return" THEN PresentMessages(jdata.val)
                          ELSE <<>>
          IN /\ result' = ReturnFalse
             /\ Len(new) = Len(expected) + 2
             /\ new = expected \o GenericNoCode]_vars

GrantFlows ==
    {"authenticate_username_password_native", "authenticate_username_password_native_v2",
     "authenticate_with_refresh_native", "authenticate_with_refresh_native_v2",
     "authenticate_with_code_native", "authenticate_with_code_native_v2",
     "authenticate_with_code_encrypted", "authenticate_with_saml_native",
     "authenticate_with_saml_native_v2", "authenticate_with_desktopsso_token"}

\* the operation that has ended answered its one request with HTTP 200
Completed200 == Len(resps) = 1 /\ resps[1].status = 200

\* the call that has ended was made with returnreply=True
WithReturnReply == HasKey(call, "returnreply") /\ call.returnreply

\* C26: tokendata is changed only by a grant flow that completes with HTTP 200
\* and returnreply false, by bulk enrollment reaching CompleteSuccess, and by
\* get_tokens parsing a supplied access token (or running a grant flow); an
\* operation that raises, returns False or is called with returnreply=True
\* leaves tokendata as it was, and get_tokens with non-empty tokendata returns
\* it without any request.
C26_TokendataFrame ==
    pc = "done" =>
       /\ tokendata # pre
             => /\ result.kind = "return"
                /\ result.val = tokendata
                /\ ~WithReturnReply
                /\ \/ call.op \in GrantFlows /\ Completed200
                   \/ /\ call.op = "get_bulk_enrollment_token"
                      /\ DictGet(resps[Len(resps)].json, "state") = "CompleteSuccess"
                   \/ /\ call.op = "get_tokens"
                      /\ pre = EmptyDict
                      /\ \/ Completed200
                         \/ log = <<>> /\ call.args.access_token # NoToken
       /\ (result.kind = "raise" \/ result = ReturnFalse \/ WithReturnReply)
             => tokendata = pre
       /\ (call.op = "get_tokens" /\ pre # EmptyDict)
             => (result = Return(pre) /\ log = <<>> /\ tokendata = pre)

C26_Witness ==
    /\ pc = "done"
    /\ call.op = "get_tokens"
    /\ pre # EmptyDict
    /\ result = Return(pre)
    /\ log = <<>>

\* C27: authenticate_with_prt_cookie never sends the authorize request with an
\* absent nonce: every authorize request carries a nonce as sso_nonce, and the
\* cookie it carries has a non-empty request_nonce, also when the nonce was
\* fetched again because a derived key or session key was supplied.
C27_NoAbsentNonce ==
    \A i \in 1..Len(log) :
       HasKey(log[i], "cookies")
          => /\ Truthy(log[i].data["sso_nonce"])
             /\ Truthy(DictGet(jwt_decode_unverified(
                                   log[i].cookies["x_ms_RefreshTokenCredential"]),
                               "request_nonce"))

\* C28: called with verify_only true, authenticate_with_prt_cookie sends no
\* authorize request and ends without a code and without a code redemption,
\* whichever keys are supplied and whether or not the cookie has a nonce.
C28_VerifyOnlyNoAuthorize ==
    (call.op = "authenticate_with_prt_cookie" /\ call.args.verify_only)
    => /\ \A i \in 1..Len(log) : ~HasKey(log[i], "cookies")
       /\ pc # "cookie_authorize"
       /\ pc = "done" => result.kind \in {"raise", "false"}

\* C30: get_prt_cookie_nonce is total over the server's responses: for a
\* redirect with or without sso_nonce, a page whose $Config has bsso.nonce,
\* lacks it or is not valid JSON, and a page without $Config, it returns the
\* nonce or no value, and never raises.
C30_NonceTotal ==
    (pc = "done" /\ call.op = "get_prt_cookie_nonce")
    => /\ result.kind \in {"return", "none"}
       /\ result.kind = "return" => Truthy(result.val)

\* the PRT and session key that the call that has just ended was given, as a
\* record, or EmptyDict when the input names no such pair
GivenPrt ==
    IF call'.op = "setprt" THEN call'.args
    ELSE IF ~HasKey(disk, call'.prtfile) \/ JsonLoads(disk[call'.prtfile]).kind = "raise"
    THEN EmptyDict
    ELSE LET prtdata == JsonLoads(disk[call'.prtfile]).val
         IN IF HasKey(prtdata, "refresh_token") /\ HasKey(prtdata, "session_key")
            THEN [prt |-> prtdata["refresh_token"], sessionkey |-> prtdata["session_key"]]
            ELSE EmptyDict

\* C29: setprt and loadprt change the stored prt and session_key together:
\* when either ends, by returning or by raising, both fields hold the values
\* normalized from the new input or both hold what they held before.
C29_PrtAndKeyTogether ==
    [][(pc = "idle" /\ pc' = "done" /\ call'.op \in {"setprt", "loadprt"})
       => \/ dev' = dev
          \/ /\ GivenPrt # EmptyDict
             /\ HasKey(GivenPrt.sessionkey, "hex")
             /\ dev' = [dev EXCEPT !.prt = GivenPrt.prt,
                                   !.session_key = GivenPrt.sessionkey.hex]]_vars

====
